---------------------------- MODULE Spec2Model ----------------------------
(***************************************************************************)
(* Dspx-Monitor: the shared core (src/core.py) and the background          *)
(* scheduler (src/scheduler.py).                                           *)
(*                                                                         *)
(* The module holds these state machines, each over its own variables:     *)
(*   SpecStats   calculate_daily_stats applied to bounded datasets         *)
(*   SpecFilter  filter_to_last_24_hours applied to bounded datasets       *)
(*   SpecSeq     the signal file functions called one after the other      *)
(*   SpecSignal  the scheduler's write interleaved, system call by system  *)
(*               call, with the dashboard's read and clear                 *)
(*   SpecSched   the scheduler's main loop                                 *)
(*   SpecLoop    the main loop's call stack while it runs the due jobs     *)
(*   SpecCache   the dashboard's loader cache (src/app.py)                 *)
(*   SpecAgg     load_multiple_files applied to bounded lists of files     *)
(*   SpecCatalog the file catalog applied to bounded directories           *)
(*   SpecWindow  get_files_for_last_24_hours and                           *)
(*               get_file_modification_times on bounded directories        *)
(*   SpecSlack   send_slack_message and send_daily_report                  *)
(*   SpecReport  send_scheduled_report from the files to the message       *)
(*   SpecRecords the dashboard's aggregation over cached Records           *)
(*   SpecCheck   check_file_updates over time, with its history; and       *)
(*   SpecCheckFair, the same with the check tick executed fairly           *)
(***************************************************************************)
EXTENDS Integers, Sequences, FiniteSets, TLC

VARIABLES
    \* ---- calculate_daily_stats
    df,             \* the dataset: column name -> sequence of raw cells
    stats,          \* the returned mapping: column name -> ChannelStats
    statsPhase,     \* "input" before the call, "done" after it
    \* ---- filter_to_last_24_hours
    fdf,            \* the dataset handed to the filter
    now,            \* datetime.now() at the call
    filtered,       \* the returned dataset
    filterPhase,    \* "input" before the call, "done" after it
    \* ---- the signal file
    sigFile,        \* SIGNAL_FILE: whether it exists, and its text
    clock,          \* the clock datetime.now() reads
    \* ---- the signal functions called in sequence
    lastCall,       \* the call that returned last
    prevCall,       \* the call before it
    lastChange,     \* the last call or event that could change the file
    \* ---- the scheduler writing while the dashboard reads and clears
    wpc,            \* the writer's position in write_refresh_signal
    wLinked,        \* whether the file the writer holds open is still SIGNAL_FILE
    dpc,            \* the dashboard's position in read_ / clear_refresh_signal
    lastDone,       \* the dashboard's call that returned last
    issued,         \* the timestamps write_refresh_signal has written
    persisted,      \* those that reached SIGNAL_FILE
    erasedLog,      \* what each clear that followed a successful read erased
    raised,         \* whether a signal function raised to its caller
    \* ---- the scheduler
    schedPc,        \* main(): "running" in the loop, "stopped_error", "stopped_user"
    today,          \* the calendar day of datetime.now()
    dataFiles,      \* the data files of yesterday and today: existence and mtime
    file_mtimes,    \* the module's file_mtimes: the snapshot of the last check
    config,         \* SLACK_BOT_TOKEN and the report target, read at start
    lastJob,        \* the job run_pending() ran last, and how it ended
    \* ---- main()'s loop, step by step
    stacks,         \* the call stack of each thread of the scheduler process
    runnable,       \* run_pending(): the due jobs still to be run, in order
    due,            \* the jobs whose next_run has been reached
    ran,            \* how often each job has returned
    \* ---- the dashboard's loader cache
    cacheFiles,     \* the data files: path -> version of the content
    memCache,       \* st.cache's store of load_single_file_cached: path -> entry
    cacheClock,     \* the time, in seconds
    refreshes,      \* how often the cache has been cleared
    lastRun,        \* the last run of the script: what each load returned
    \* ---- load_multiple_files
    aggFiles,       \* filepaths: the files, each with what load_data_file makes of it
    aggResult,      \* what the call returned, or the exception it raised
    aggPhase,       \* "input" before the call, "done" after it
    \* ---- the file catalog
    catDir,         \* DATA_DIR: whether it exists, and the names in it
    catArgs,        \* start_date and end_date
    catRange,       \* what get_date_range_from_files returned
    catFiles,       \* what get_files_for_date_range returned
    catPhase,       \* which of the two calls have been made
    \* ---- the files of the last 24 hours
    winDir,         \* DATA_DIR: whether it exists, and the names in it
    winNow,         \* datetime.now() at the call: <<Y, M, D, h, m, s>>
    winFiles,       \* what get_files_for_last_24_hours returned
    winStat,        \* what os.path.getmtime makes of each returned file
    winMtimes,      \* what get_file_modification_times returned, or that it raised
    winPhase,       \* which of the two calls have been made
    \* ---- the Slack functions
    slackArgs,      \* the arguments of the call
    slackApi,       \* what the Slack API calls of the call did
    slackRet,       \* what the call returned, or that it raised, and the API calls it made
    slackPhase,     \* "input" before the call, "done" after it
    \* ---- the daily report, from the files to the message
    repCfg,         \* SLACK_BOT_TOKEN and the report target
    repFiles,       \* the files get_files_for_last_24_hours returned, with their content
    repNow,         \* datetime.now() when the filter runs
    repOut,         \* what send_scheduled_report did: its datasets, statistics and result
    repPhase,       \* "input" before the call, "done" after it
    \* ---- the cached Records under aggregation
    recDisk,        \* what load_data makes of each data file
    recCache,       \* st.cache's store: path -> the object load_data returned
    recCalls,       \* the calls of load_multiple_data_files so far: file list and result
    \* ---- the history of the file checks
    sinceStart,     \* "unchanged" until a data file changes, "checked" from the first check on
    unsignalled,    \* the files with a change that no written signal has followed yet
    returned,       \* the files that appeared since the last check
    dropped         \* the files whose entry, a real mtime, a check dropped

statsVars == <<df, stats, statsPhase>>
filterVars == <<fdf, now, filtered, filterPhase>>
fileVars == <<sigFile, clock>>
seqVars == <<lastCall, prevCall, lastChange>>
concVars == <<wpc, wLinked, dpc, lastDone, issued, persisted, erasedLog, raised>>

schedVars == <<schedPc, today, dataFiles, file_mtimes, config, lastJob>>
loopVars == <<stacks, runnable, due, ran>>
cacheVars == <<cacheFiles, memCache, cacheClock, refreshes, lastRun>>
aggVars == <<aggFiles, aggResult, aggPhase>>
catVars == <<catDir, catArgs, catRange, catFiles, catPhase>>
winVars == <<winDir, winNow, winFiles, winStat, winMtimes, winPhase>>
slackVars == <<slackArgs, slackApi, slackRet, slackPhase>>
repVars == <<repCfg, repFiles, repNow, repOut, repPhase>>
recVars == <<recDisk, recCache, recCalls>>
chkVars == <<sinceStart, unsignalled, returned, dropped>>

vars == <<statsVars, filterVars, fileVars, seqVars, concVars, schedVars, loopVars, cacheVars, aggVars, catVars, winVars, slackVars, repVars, recVars, chkVars>>

(***************************************************************************)
(* Values.  A number of the program is an exact rational num/den (the      *)
(* program's floats, without rounding); NaN and None are values of their   *)
(* own.  A raw cell of a loaded file is numeric text, other text, or       *)
(* missing.                                                                *)
(***************************************************************************)
Frac(a, b) == [k |-> "frac", num |-> a, den |-> b]
Num(v) == [k |-> "num", num |-> v, den |-> 1]
NaN == [k |-> "nan", num |-> 0, den |-> 1]
None == [k |-> "none", num |-> 0, den |-> 1]
TextCell == [k |-> "text", num |-> 0, den |-> 1]
MissingCell == [k |-> "missing", num |-> 0, den |-> 1]

\* bounds of the datasets handed to calculate_daily_stats
MaxRows == 61
MaxGap == 2

TEMP_COLUMNS == {"full range", "still", "Platine 4K"}

samples_per_15min == 30

(***************************************************************************)
(* pd.to_numeric(column, errors="coerce"): numeric text becomes its        *)
(* number, everything else NaN.  Row positions are kept.                   *)
(***************************************************************************)
CoerceZero(cell) == IF cell.k = "num" THEN Num(cell.num) ELSE Num(0)

to_numeric_cell(cell) == IF cell.k = "num" THEN Num(cell.num) ELSE NaN

to_numeric(column) == [i \in 1..Len(column) |-> to_numeric_cell(column[i])]

notna(x) == x.k # "nan"

\* the positions of the present (non-NaN) values of a coerced column
Present(values) == {i \in 1..Len(values) : notna(values[i])}

\* the sum of the present values of rows lo..hi
RECURSIVE SumPresent(_, _, _)
SumPresent(values, lo, hi) ==
    IF lo > hi THEN 0
    ELSE IF lo = hi THEN (IF notna(values[lo]) THEN values[lo].num ELSE 0)
    ELSE SumPresent(values, lo, (lo + hi) \div 2)
         + SumPresent(values, (lo + hi) \div 2 + 1, hi)

\* of two values the lesser (sign = 1) or greater (sign = -1), NaN being skipped
Better(a, b, sign) ==
    IF ~notna(a) THEN b
    ELSE IF ~notna(b) THEN a
    ELSE IF sign * a.num <= sign * b.num THEN a ELSE b

\* the least (sign = 1) or greatest (sign = -1) present value of rows lo..hi, NaN if none
RECURSIVE Extreme(_, _, _, _)
Extreme(values, lo, hi, sign) ==
    IF lo > hi THEN NaN
    ELSE IF lo = hi THEN values[lo]
    ELSE Better(Extreme(values, lo, (lo + hi) \div 2, sign),
                Extreme(values, (lo + hi) \div 2 + 1, hi, sign), sign)

\* Series.min(), Series.max(), Series.mean(): NaN is skipped; NaN when nothing is left
series_min(values) == Extreme(values, 1, Len(values), 1)

series_max(values) == Extreme(values, 1, Len(values), -1)

series_mean(values) ==
    IF Present(values) = {} THEN NaN
    ELSE Frac(SumPresent(values, 1, Len(values)), Cardinality(Present(values)))

\* the last present value in row order, None when there is none
LastPresent(values) ==
    IF Present(values) = {} THEN None
    ELSE values[CHOOSE j \in Present(values) : \A l \in Present(values) : l <= j]

\* values.iloc[-1] without its guard: IndexError on a column of no rows
CurrentUnguarded(values) ==
    IF Len(values) > 0 THEN values[Len(values)] ELSE [k |-> "IndexError", num |-> 0, den |-> 1]

\* values.iloc[-1] if len(values) > 0 else None
current_value(values) ==
    IF Len(values) > 0 THEN values[Len(values)] ELSE None

\* (values.iloc[i + samples_per_15min] - values.iloc[i]) / 15.0, i counted from 0
window_rate(values, i) ==
    LET a == values[i + 1]
        b == values[i + samples_per_15min + 1]
    IN IF notna(a) /\ notna(b) THEN Frac(b.num - a.num, 15) ELSE NaN

\* the same rate taken inside the window that starts at row i
InWindowRate(values, i) ==
    LET a == values[i + 1]
        b == values[i + samples_per_15min]
    IN IF notna(a) /\ notna(b) THEN Frac(b.num - a.num, 15) ELSE NaN

\* for i in range(0, len(values) - samples_per_15min, samples_per_15min): ... rates.append(rate)
RECURSIVE rate_loop(_, _, _)
rate_loop(values, i, rates) ==
    IF i >= Len(values) - samples_per_15min THEN rates
    ELSE LET rate == window_rate(values, i)
         IN rate_loop(values, i + samples_per_15min,
                      IF notna(rate) THEN Append(rates, rate) ELSE rates)

RECURSIVE SumRates(_)
SumRates(rates) ==
    IF rates = <<>> THEN 0 ELSE rates[1].num + SumRates(Tail(rates))

\* the pairs of row positions, counted from 0, that the loop takes its rates from
rate_rows(values) ==
    IF Len(values) >= samples_per_15min
    THEN {<<i, i + samples_per_15min>> :
             i \in {j \in 0..Len(values) :
                       j % samples_per_15min = 0 /\ j < Len(values) - samples_per_15min}}
    ELSE {}

\* the average without its `else 0`: a division by len(rates) = 0
AvgRateUnguarded(values) ==
    IF Len(values) >= samples_per_15min
    THEN LET rates == rate_loop(values, 0, <<>>)
         IN IF rates # <<>> THEN Frac(SumRates(rates), 15 * Len(rates)) ELSE NaN
    ELSE Num(0)

\* sum(rates) / len(rates) if rates else 0, and 0 below samples_per_15min rows
avg_rate_per_min(values) ==
    IF Len(values) >= samples_per_15min
    THEN LET rates == rate_loop(values, 0, <<>>)
         IN IF rates # <<>> THEN Frac(SumRates(rates), 15 * Len(rates)) ELSE Num(0)
    ELSE Num(0)

channel_stats(values) ==
    [min |-> series_min(values),
     max |-> series_max(values),
     mean |-> series_mean(values),
     current |-> current_value(values),
     avg_rate_per_min |-> avg_rate_per_min(values)]

\* for col in TEMP_COLUMNS: if col in df.columns: stats[col] = {...}
calculate_daily_stats(d) ==
    [col \in TEMP_COLUMNS \cap DOMAIN d |-> channel_stats(to_numeric(d[col]))]

(***************************************************************************)
(* The datasets the statistics are applied to.  A column of n rows has     *)
(* `lead` non-numeric cells at its start, `trail` missing cells at its     *)
(* end, optionally a non-numeric cell at the row that closes the first     *)
(* rate (row samples_per_15min + 1), and numeric cells elsewhere: a ramp   *)
(* 1, 2, 3, ... or a sequence that is not monotonic.  Columns differ by a  *)
(* per-column offset.                                                      *)
(***************************************************************************)
ColumnOffset(col) ==
    IF col = "full range" THEN 0 ELSE IF col = "still" THEN 100 ELSE 200

RawCell(col, i, n, lead, trail, mid, saw) ==
    IF i <= lead THEN TextCell
    ELSE IF i > n - trail THEN MissingCell
    ELSE IF mid /\ i = samples_per_15min + 1 THEN TextCell
    ELSE IF saw THEN Num(ColumnOffset(col) + ((i * 7) % 5) * 3 - i)
    ELSE Num(ColumnOffset(col) + i)

StatsInputs ==
    {[col \in cols |-> [i \in 1..n |-> RawCell(col, i, n, lead, trail, mid, saw)]] :
        n \in 0..MaxRows, cols \in SUBSET TEMP_COLUMNS,
        lead \in 0..MaxGap, trail \in 0..MaxGap, mid \in BOOLEAN, saw \in BOOLEAN}

NoStats == [col \in {} |-> channel_stats(<<>>)]

StatsIdle ==
    /\ df = NoStats
    /\ stats = NoStats
    /\ statsPhase = "off"

InitStats ==
    /\ df \in StatsInputs
    /\ stats = NoStats
    /\ statsPhase = "input"

\* stats = calculate_daily_stats(df)
CalculateDailyStats ==
    /\ statsPhase = "input"
    /\ stats' = calculate_daily_stats(df)
    /\ statsPhase' = "done"
    /\ UNCHANGED <<df, filterVars, fileVars, seqVars, concVars, schedVars, loopVars,
                   cacheVars, aggVars, catVars, winVars, slackVars, repVars, recVars,
                   chkVars>>

(***************************************************************************)
(* Claims about calculate_daily_stats, checked under SpecStats.            *)
(***************************************************************************)
StatsDone == statsPhase = "done"

\* the number of window rates averaged into avg_rate_per_min (0 when the result is the plain 0)
RateCount(st) ==
    IF st.avg_rate_per_min.k = "frac" THEN st.avg_rate_per_min.den \div 15 ELSE 0

AllNumeric(column) == \A i \in 1..Len(column) : column[i].k = "num"

\* C1: for every monitored channel of the dataset, `current` is the last numeric value in
\* row order, also when the final rows are non-numeric or missing, and null only when the
\* channel has no numeric value at all.
C1_CurrentIsLastNumeric ==
    StatsDone =>
        \A col \in DOMAIN stats : stats[col].current = LastPresent(to_numeric(df[col]))

\* C1, the case of the claim: a channel with a numeric value whose final row is not numeric
C1_TrailingGapSeen ==
    /\ StatsDone
    /\ \E col \in DOMAIN stats :
          /\ Len(df[col]) > 1
          /\ df[col][Len(df[col])].k # "num"
          /\ Present(to_numeric(df[col])) # {}

\* C2: for a channel of n rows, all numeric, the number of window rates averaged is the
\* number of complete non-overlapping windows of 30 samples, floor(n / 30).
C2_RateCountIsCompleteWindows ==
    StatsDone =>
        \A col \in DOMAIN stats :
            AllNumeric(df[col]) => RateCount(stats[col]) = Len(df[col]) \div samples_per_15min

\* C2, the case of the claim: an all-numeric channel of exactly one or exactly two windows
C2_FullWindowsSeen ==
    /\ StatsDone
    /\ \E col \in DOMAIN stats :
          /\ AllNumeric(df[col])
          /\ Len(df[col]) \in {samples_per_15min, 2 * samples_per_15min}

\* the rows, counted from 0, that start a pair of numeric rows 30 apart
DefinedRates(values) ==
    {i \in 0..Len(values) :
        /\ i % 30 = 0
        /\ i + 30 < Len(values)
        /\ notna(values[i + 1]) /\ notna(values[i + 31])}

IsNumber(x) == x.k \in {"num", "frac"}

C18_RateWithinWindow ==
    StatsDone =>
        \A col \in DOMAIN stats :
           LET values == to_numeric(df[col])
           IN /\ \A p \in rate_rows(values) :
                    p[1] \div 30 = p[2] \div 30 /\ p[2] = p[1] + 29
              /\ (AllNumeric(df[col]) /\ Len(values) \in 31..60) =>
                    stats[col].avg_rate_per_min.num * 15
                        = InWindowRate(values, 0).num * stats[col].avg_rate_per_min.den

\* C18, the case: a channel all of whose rows are numeric and that has one rate
C18_OneRateSeen ==
    /\ StatsDone
    /\ \E col \in DOMAIN stats :
          /\ AllNumeric(df[col])
          /\ Cardinality(rate_rows(to_numeric(df[col]))) = 1

\* C24: calculate_daily_stats does not raise on a missing channel, an all-null channel,
\* an empty dataset or a channel of fewer than 30 rows: the result has an entry for
\* exactly the monitored channels that are columns of the dataset, and every entry
\* carries min, max, mean, current and avg_rate_per_min, each a number, NaN or null.
C24_EntryPerPresentChannel ==
    StatsDone =>
        /\ DOMAIN stats = {col \in TEMP_COLUMNS : col \in DOMAIN df}
        /\ \A col \in DOMAIN stats :
              /\ DOMAIN stats[col] = {"min", "max", "mean", "current", "avg_rate_per_min"}
              /\ \A field \in DOMAIN stats[col] :
                    stats[col][field].k \in {"num", "frac", "nan", "none"}
              /\ Len(df[col]) < 30 => stats[col].avg_rate_per_min = Num(0)
              /\ Len(df[col]) = 0 => stats[col].current = None

\* C24, the cases: a dataset without rows, and a dataset that lacks one monitored channel
\* and whose other channels have fewer than 30 rows, none of them numeric
C24_EmptyDatasetSeen ==
    /\ StatsDone
    /\ DOMAIN df = TEMP_COLUMNS
    /\ \A col \in DOMAIN df : Len(df[col]) = 0
    /\ DOMAIN stats = TEMP_COLUMNS

C24_DegenerateChannelsSeen ==
    /\ StatsDone
    /\ "still" \notin DOMAIN df
    /\ "still" \notin DOMAIN stats
    /\ "full range" \in DOMAIN stats
    /\ Len(df["full range"]) \in 1..29
    /\ \A i \in 1..Len(df["full range"]) : df["full range"][i].k # "num"
    /\ stats["full range"].current = NaN

(***************************************************************************)
(* filter_to_last_24_hours.                                                *)
(*                                                                         *)
(* A datetime_str is the sequence of its numeric fields:                   *)
(*   <<Y, M, D, h, m, s>>   "Y-M-D h:m:s", what aggregation writes for a   *)
(*                          file whose name decodes to a date              *)
(*   <<h, m, s>>            "h:m:s", the time of day alone                 *)
(*   <<>>                   text without any field ("nan")                 *)
(* An instant is a number of seconds since 2023-01-01 00:00:00 together    *)
(* with a number of microseconds; NaT is the failed parse.                 *)
(***************************************************************************)
MaxFilterRows == 2

Instant(sec, micro) == [nat |-> FALSE, sec |-> sec, micro |-> micro]

NaT == [nat |-> TRUE, sec |-> 0, micro |-> 0]

IsLeap(y) == (y % 4 = 0 /\ y % 100 # 0) \/ y % 400 = 0

DaysInMonth(y, m) ==
    IF m = 2 THEN (IF IsLeap(y) THEN 29 ELSE 28)
    ELSE IF m \in {4, 6, 9, 11} THEN 30 ELSE 31

RECURSIVE DaysBeforeMonth(_, _)
DaysBeforeMonth(y, m) ==
    IF m = 1 THEN 0 ELSE DaysInMonth(y, m - 1) + DaysBeforeMonth(y, m - 1)

RECURSIVE DaysBeforeYear(_)
DaysBeforeYear(y) ==
    IF y <= 2023 THEN 0 ELSE (IF IsLeap(y - 1) THEN 366 ELSE 365) + DaysBeforeYear(y - 1)

\* the fields match format '%Y-%m-%d %H:%M:%S'
matches_format(s) ==
    /\ Len(s) = 6
    /\ s[1] >= 2023
    /\ s[2] \in 1..12
    /\ s[3] \in 1..DaysInMonth(s[1], s[2])
    /\ s[4] \in 0..23
    /\ s[5] \in 0..59
    /\ s[6] \in 0..59

Seconds(s) ==
    (((DaysBeforeYear(s[1]) + DaysBeforeMonth(s[1], s[2]) + s[3] - 1) * 24 + s[4]) * 60
        + s[5]) * 60 + s[6]

\* a parse that does not check the ranges of the fields: hour 24 rolls over to the next day
LenientToDatetime(s) ==
    IF Len(s) = 6 THEN Instant(Seconds(s), 0) ELSE NaT

\* a parse without the format: a time of day alone is taken as a time of 2024-01-02
ToDatetimeAnyFormat(s) ==
    IF matches_format(s) THEN Instant(Seconds(s), 0)
    ELSE IF Len(s) = 3 THEN Instant(Seconds(<<2024, 1, 2>> \o s), 0)
    ELSE NaT

\* pd.to_datetime(text, format='%Y-%m-%d %H:%M:%S', errors='coerce')
to_datetime(s) ==
    IF matches_format(s) THEN Instant(Seconds(s), 0) ELSE NaT

\* cutoff = now - timedelta(hours=24)
cutoff_of(t) == Instant(Seconds(t.dt) - 24 * 3600, t.micro)

\* a comparison that leaves out the instant of the cutoff itself
StrictlyAfter(parsed, cutoff) ==
    /\ ~parsed.nat
    /\ \/ parsed.sec > cutoff.sec
       \/ parsed.sec = cutoff.sec /\ parsed.micro > cutoff.micro

\* df['_parsed_datetime'] >= cutoff: NaT compares false
at_or_after(parsed, cutoff) ==
    /\ ~parsed.nat
    /\ \/ parsed.sec > cutoff.sec
       \/ parsed.sec = cutoff.sec /\ parsed.micro >= cutoff.micro

RECURSIVE select_rows(_, _)
select_rows(rows, cutoff) ==
    IF rows = <<>> THEN <<>>
    ELSE LET rest == select_rows(Tail(rows), cutoff)
         IN IF at_or_after(to_datetime(Head(rows).datetime_str), cutoff)
            THEN <<Head(rows)>> \o rest ELSE rest

\* a dataset: None, or its rows and whether it has the datetime_str column
NoneDf == [none |-> TRUE, has_datetime_str |-> FALSE, rows |-> <<>>]

filter_to_last_24_hours(d, t) ==
    IF d.none \/ Len(d.rows) = 0 THEN d
    ELSE IF ~d.has_datetime_str THEN d
    ELSE [d EXCEPT !.rows = select_rows(d.rows, cutoff_of(t))]

\* the datetime_str values of the datasets the filter is applied to
DatetimeStrings ==
    {<<2024, 1, 1, 10, 0, 0>>, <<2024, 1, 2, 10, 0, 0>>,
     <<2024, 1, 1, 9, 59, 59>>, <<2024, 1, 1, 10, 0, 1>>,
     <<2023, 12, 31, 23, 59, 59>>, <<2024, 3, 1, 0, 0, 0>>,
     <<2024, 1, 2, 24, 0, 0>>, <<2024, 2, 30, 10, 0, 0>>,
     <<10, 0, 0>>, <<>>}

\* the values of datetime.now()
Nows ==
    {[dt |-> <<2024, 1, 2, 10, 0, 0>>, micro |-> 0],
     [dt |-> <<2024, 1, 2, 10, 0, 0>>, micro |-> 1],
     [dt |-> <<2024, 1, 1, 23, 59, 59>>, micro |-> 0],
     [dt |-> <<2024, 3, 1, 10, 0, 1>>, micro |-> 0],
     [dt |-> <<2024, 3, 2, 0, 0, 0>>, micro |-> 0]}

FilterInputs ==
    {NoneDf} \cup
    {[none |-> FALSE, has_datetime_str |-> h,
      rows |-> [i \in 1..n |-> [id |-> i, datetime_str |-> IF h THEN strs[i] ELSE <<>>]]] :
        h \in BOOLEAN, n \in 0..MaxFilterRows, strs \in [1..MaxFilterRows -> DatetimeStrings]}

FilterIdle ==
    /\ fdf = NoneDf
    /\ now = [dt |-> <<2024, 1, 2, 10, 0, 0>>, micro |-> 0]
    /\ filtered = NoneDf
    /\ filterPhase = "off"

InitFilter ==
    /\ fdf \in FilterInputs
    /\ now \in Nows
    /\ filtered = NoneDf
    /\ filterPhase = "input"

\* filtered = filter_to_last_24_hours(fdf), with datetime.now() = now
FilterToLast24Hours ==
    /\ filterPhase = "input"
    /\ filtered' = filter_to_last_24_hours(fdf, now)
    /\ filterPhase' = "done"
    /\ UNCHANGED <<fdf, now, statsVars, fileVars, seqVars, concVars, schedVars, loopVars,
                   cacheVars, aggVars, catVars, winVars, slackVars, repVars, recVars,
                   chkVars>>

(***************************************************************************)
(* Claims about filter_to_last_24_hours, checked under SpecFilter.  What   *)
(* the claims call "parses" and ">= now - 24h" is stated on the calendar   *)
(* fields themselves, without the conversion to seconds.                   *)
(***************************************************************************)
FilterDone == filterPhase = "done"

MonthLengths(y) ==
    <<31, IF y % 400 = 0 \/ (y % 4 = 0 /\ y % 100 # 0) THEN 29 ELSE 28,
      31, 30, 31, 30, 31, 31, 30, 31, 30, 31>>

WellFormed(s) ==
    /\ Len(s) = 6
    /\ s[2] >= 1 /\ s[2] <= 12
    /\ s[3] >= 1 /\ s[3] <= MonthLengths(s[1])[s[2]]
    /\ s[4] >= 0 /\ s[4] < 24
    /\ s[5] >= 0 /\ s[5] < 60
    /\ s[6] >= 0 /\ s[6] < 60

\* the same time of day on the day before
DayBefore(s) ==
    IF s[3] > 1 THEN [s EXCEPT ![3] = s[3] - 1]
    ELSE IF s[2] > 1 THEN [s EXCEPT ![2] = s[2] - 1, ![3] = MonthLengths(s[1])[s[2] - 1]]
    ELSE [s EXCEPT ![1] = s[1] - 1, ![2] = 12, ![3] = 31]

\* a is later than b, field by field
RECURSIVE Later(_, _)
Later(a, b) ==
    /\ a # <<>>
    /\ \/ Head(a) > Head(b)
       \/ Head(a) = Head(b) /\ Later(Tail(a), Tail(b))

\* the row's datetime parses and is no older than 24 hours at instant t
InLast24Hours(s, t) ==
    /\ WellFormed(s)
    /\ \/ Later(s, DayBefore(t.dt))
       \/ s = DayBefore(t.dt) /\ t.micro = 0

Ids(rows) == [i \in 1..Len(rows) |-> rows[i].id]

\* the dataset and the instant of C3
C3Case ==
    /\ ~fdf.none /\ fdf.has_datetime_str
    /\ now = [dt |-> <<2024, 1, 2, 10, 0, 0>>, micro |-> 0]
    /\ Len(fdf.rows) = 2
    /\ fdf.rows[1].datetime_str = <<2024, 1, 1, 10, 0, 0>>
    /\ fdf.rows[2].datetime_str = <<2024, 1, 2, 10, 0, 0>>

\* C3 as stated: with now = 2024-01-02 10:00:00 the rows "2024-01-01 10:00:00",
\* "2024-01-02 10:00:00" are filtered to exactly the second row.
C3_RetainsOnlySecondRow ==
    (FilterDone /\ C3Case) => Ids(filtered.rows) = <<2>>

\* C3 amended: with now = 2024-01-02 10:00:00 the rows "2024-01-01 10:00:00",
\* "2024-01-02 10:00:00" are both retained, in order: the first row is exactly 24 hours
\* old and the boundary is inclusive.
C3_RetainsBothRows ==
    (FilterDone /\ C3Case) => Ids(filtered.rows) = <<1, 2>> /\ filtered.rows = fdf.rows

C3_CaseFiltered == FilterDone /\ C3Case

\* C4: on a dataset with a datetime column the filter returns exactly the rows whose
\* datetime parses as YYYY-MM-DD HH:MM:SS and is >= now - 24h (boundary inclusive), in
\* their original order; rows that do not parse are excluded.
C4_ExactlyTheRowsInWindow ==
    (FilterDone /\ ~fdf.none /\ fdf.has_datetime_str) =>
        /\ ~filtered.none /\ filtered.has_datetime_str
        /\ \A j \in 1..Len(filtered.rows) :
              /\ filtered.rows[j].id \in 1..Len(fdf.rows)
              /\ filtered.rows[j] = fdf.rows[filtered.rows[j].id]
        /\ \A j \in 1..Len(filtered.rows) - 1 :
              filtered.rows[j].id < filtered.rows[j + 1].id
        /\ \A i \in 1..Len(fdf.rows) :
              (\E j \in 1..Len(filtered.rows) : filtered.rows[j].id = i)
                  <=> InLast24Hours(fdf.rows[i].datetime_str, now)

\* C4, the cases of the claim: a row of exactly the cutoff instant is kept while a row
\* that does not parse is dropped
C4_BoundaryKeptUnparsedDropped ==
    /\ FilterDone /\ ~fdf.none /\ fdf.has_datetime_str
    /\ Len(fdf.rows) = 2 /\ Len(filtered.rows) = 1
    /\ \E i \in 1..2 :
          /\ filtered.rows[1].id = i
          /\ fdf.rows[i].datetime_str = DayBefore(now.dt)
          /\ ~WellFormed(fdf.rows[3 - i].datetime_str)

(***************************************************************************)
(* The signal file (SIGNAL_FILE) and the three functions on it.            *)
(*                                                                         *)
(* The file is absent, or holds a text: a sequence of characters.  A       *)
(* timestamp is a number of clock ticks; str() writes it as its decimal    *)
(* digits and float() reads it back.  Every system call on the file may    *)
(* fail with an OSError.                                                   *)
(***************************************************************************)
MaxWrites == 3

Digits == <<"0", "1", "2", "3", "4", "5", "6", "7", "8", "9">>

DigitChars == {Digits[i] : i \in 1..10}

DigitValue(c) == (CHOOSE i \in 1..10 : Digits[i] = c) - 1

\* a timestamp, or None
Ts(n) == [null |-> FALSE, ts |-> n]
Null == [null |-> TRUE, ts |-> 0]

\* str() that keeps the last digit only
StrLastDigit(n) == <<Digits[(n % 10) + 1]>>

\* str(datetime.now().timestamp())
RECURSIVE str(_)
str(n) ==
    IF n < 10 THEN <<Digits[n + 1]>>
    ELSE Append(str(n \div 10), Digits[(n % 10) + 1])

\* text.strip()
RECURSIVE strip(_)
strip(text) ==
    IF text = <<>> THEN text
    ELSE IF Head(text) = " " THEN strip(Tail(text))
    ELSE IF text[Len(text)] = " " THEN strip(SubSeq(text, 1, Len(text) - 1))
    ELSE text

is_number(text) == text # <<>> /\ \A i \in 1..Len(text) : text[i] \in DigitChars

RECURSIVE number_of(_)
number_of(text) ==
    IF text = <<>> THEN 0
    ELSE 10 * number_of(SubSeq(text, 1, Len(text) - 1)) + DigitValue(text[Len(text)])

\* float() that stops at the first digit
FloatFirstDigit(text) ==
    IF is_number(text) THEN [exc |-> "none", value |-> Ts(DigitValue(text[1]))]
    ELSE [exc |-> "ValueError", value |-> Null]

\* float(text): the number, or ValueError
float(text) ==
    IF is_number(text) THEN [exc |-> "none", value |-> Ts(number_of(text))]
    ELSE [exc |-> "ValueError", value |-> Null]

Absent == [exists |-> FALSE, text |-> <<>>]

\* open(SIGNAL_FILE, 'a'): the text is kept
OpenAppend(file) == [exists |-> TRUE, text |-> file.text]

\* open(SIGNAL_FILE, 'w'): the file is created or truncated
open_w(file) == [exists |-> TRUE, text |-> <<>>]

\* f.write(str(ts)) and the close that flushes it
write_text(file, ts) == [exists |-> TRUE, text |-> file.text \o str(ts)]

\* a remove that leaves the file where it is
KeepFile(file) == file

\* os.remove(SIGNAL_FILE)
remove(file) == Absent

\* `except Exception: pass` of each function; the mutants catch OSError alone, or nothing
CatchesOSErrorOnly(exc) == exc = "OSError"

CatchesNothing(exc) == FALSE

write_catches(exc) == exc \in {"OSError", "ValueError"}

read_catches(exc) == exc \in {"OSError", "ValueError"}

clear_catches(exc) == exc \in {"OSError", "ValueError"}

\* what the caller sees of a call whose body ended with exc
Outcome(exc, caught) == IF exc = "none" \/ caught THEN "returned" ELSE "raised"

(***************************************************************************)
(* The functions as whole calls.  `fault` names the system call that       *)
(* fails, "none" when none does.                                           *)
(***************************************************************************)
write_refresh_signal(file, ts, fault) ==
    LET body == IF fault = "open" THEN [file |-> file, exc |-> "OSError"]
                ELSE IF fault = "write" THEN [file |-> open_w(file), exc |-> "OSError"]
                ELSE [file |-> write_text(open_w(file), ts), exc |-> "none"]
    IN [file |-> body.file, outcome |-> Outcome(body.exc, write_catches(body.exc))]

read_refresh_signal(file, fault) ==
    LET body == IF ~file.exists THEN [exc |-> "none", value |-> Null]
                ELSE IF fault \in {"open", "read"} THEN [exc |-> "OSError", value |-> Null]
                ELSE float(strip(file.text))
    IN [value |-> body.value, outcome |-> Outcome(body.exc, read_catches(body.exc)),
        via |-> IF ~file.exists THEN "missing"
                ELSE IF body.exc = "OSError" THEN "unreadable"
                ELSE IF body.exc = "ValueError" THEN "malformed" ELSE "value"]

clear_refresh_signal(file, fault) ==
    LET body == IF ~file.exists THEN [file |-> file, exc |-> "none"]
                ELSE IF fault = "remove" THEN [file |-> file, exc |-> "OSError"]
                ELSE [file |-> remove(file), exc |-> "none"]
    IN [file |-> body.file, outcome |-> Outcome(body.exc, clear_catches(body.exc))]

(***************************************************************************)
(* One caller calling the three functions one after the other (SpecSeq).   *)
(* lastCall is the call that just returned, prevCall the one before it,    *)
(* lastChange the most recent call or event that could change the file.    *)
(***************************************************************************)
Call(op, fault, outcome, value, ts, existed, via) ==
    [op |-> op, fault |-> fault, outcome |-> outcome, value |-> value, ts |-> ts,
     existed |-> existed, via |-> via]

NoCall == Call("none", "none", "returned", Null, 0, FALSE, "none")

\* texts that something other than write_refresh_signal may leave in the file
ForeignTexts == {<<"x">>, <<"1", "x">>, <<" ">>, <<"1", ".", ".", "5">>}

FileIdle ==
    /\ sigFile = Absent
    /\ clock = 8

SeqIdle ==
    /\ lastCall = NoCall
    /\ prevCall = NoCall
    /\ lastChange = NoCall

InitSeq == FileIdle /\ SeqIdle

\* write_refresh_signal() at time `clock`
WriteCall ==
    /\ clock < 8 + MaxWrites
    /\ \E fault \in {"none", "open", "write"} :
          LET r == write_refresh_signal(sigFile, clock, fault)
              c == Call("write", fault, r.outcome, Null, clock, sigFile.exists, "none")
          IN /\ sigFile' = r.file
             /\ lastCall' = c
             /\ lastChange' = c
    /\ clock' = clock + 1
    /\ prevCall' = lastCall
    /\ UNCHANGED <<statsVars, filterVars, concVars, schedVars, loopVars, cacheVars, aggVars,
                   catVars, winVars, slackVars, repVars, recVars, chkVars>>

\* read_refresh_signal()
ReadCall ==
    /\ \E fault \in {"none", "open", "read"} :
          LET r == read_refresh_signal(sigFile, fault)
          IN lastCall' = Call("read", IF sigFile.exists THEN fault ELSE "none", r.outcome,
                              r.value, 0, sigFile.exists, r.via)
    /\ prevCall' = lastCall
    /\ UNCHANGED <<sigFile, clock, lastChange, statsVars, filterVars, concVars, schedVars,
                   loopVars, cacheVars, aggVars, catVars, winVars, slackVars, repVars,
                   recVars, chkVars>>

\* clear_refresh_signal()
ClearCall ==
    /\ \E fault \in {"none", "remove"} :
          LET r == clear_refresh_signal(sigFile, fault)
              c == Call("clear", IF sigFile.exists THEN fault ELSE "none", r.outcome,
                        Null, 0, sigFile.exists, "none")
          IN /\ sigFile' = r.file
             /\ lastCall' = c
             /\ lastChange' = c
    /\ prevCall' = lastCall
    /\ UNCHANGED <<clock, statsVars, filterVars, concVars, schedVars, loopVars, cacheVars,
                   aggVars, catVars, winVars, slackVars, repVars, recVars, chkVars>>

\* something else leaves a text in the file
ForeignWrite ==
    /\ lastCall.op # "foreign"
    /\ \E text \in ForeignTexts :
          sigFile' = [exists |-> TRUE, text |-> text]
    /\ lastCall' = Call("foreign", "none", "returned", Null, 0, sigFile.exists, "none")
    /\ lastChange' = lastCall'
    /\ prevCall' = lastCall
    /\ UNCHANGED <<clock, statsVars, filterVars, concVars, schedVars, loopVars, cacheVars,
                   aggVars, catVars, winVars, slackVars, repVars, recVars, chkVars>>

(***************************************************************************)
(* The scheduler process calling write_refresh_signal while the dashboard  *)
(* process calls read_refresh_signal and clear_refresh_signal, in any      *)
(* order and without a lock (SpecSignal).  One step is one system call.    *)
(***************************************************************************)
\* the timestamp a text stands for (None when it stands for none), for the log of erasures
ErasedValue(text) ==
    IF is_number(strip(text)) THEN Ts(number_of(strip(text))) ELSE Null

Done(op, value, via, seen) == [op |-> op, value |-> value, via |-> via, seen |-> seen]

ConcIdle ==
    /\ wpc = "idle"
    /\ wLinked = FALSE
    /\ dpc = "idle"
    /\ lastDone = Done("none", Null, "none", {})
    /\ issued = {}
    /\ persisted = {}
    /\ erasedLog = {}
    /\ raised = FALSE

InitSignal == FileIdle /\ ConcIdle

\* writer: with open(SIGNAL_FILE, 'w') as f
W_Open ==
    /\ wpc = "idle"
    /\ clock < 8 + MaxWrites
    /\ \E fault \in BOOLEAN :
          IF fault
          THEN /\ raised' = (raised \/ Outcome("OSError", write_catches("OSError")) = "raised")
               /\ UNCHANGED <<sigFile, wpc, wLinked>>
          ELSE /\ sigFile' = open_w(sigFile)
               /\ wpc' = "opened"
               /\ wLinked' = TRUE
               /\ UNCHANGED raised
    /\ UNCHANGED <<clock, dpc, lastDone, issued, persisted, erasedLog>>
    /\ UNCHANGED <<statsVars, filterVars, seqVars, schedVars, loopVars, cacheVars, aggVars,
                   catVars, winVars, slackVars, repVars, recVars, chkVars>>

\* writer: f.write(str(datetime.now().timestamp())), flushed by the close
W_Write ==
    /\ wpc = "opened"
    /\ \E fault \in BOOLEAN :
          IF fault
          THEN /\ raised' = (raised \/ Outcome("OSError", write_catches("OSError")) = "raised")
               /\ UNCHANGED <<sigFile, issued, persisted>>
          ELSE /\ issued' = issued \cup {clock}
               /\ IF wLinked
                  THEN /\ sigFile' = write_text(sigFile, clock)
                       /\ persisted' = persisted \cup {clock}
                  ELSE UNCHANGED <<sigFile, persisted>>
               /\ UNCHANGED raised
    /\ clock' = clock + 1
    /\ wpc' = "idle"
    /\ wLinked' = FALSE
    /\ UNCHANGED <<dpc, lastDone, erasedLog>>
    /\ UNCHANGED <<statsVars, filterVars, seqVars, schedVars, loopVars, cacheVars, aggVars,
                   catVars, winVars, slackVars, repVars, recVars, chkVars>>

\* the dashboard's call returns (or raises)
Return(op, exc, caught, value, via) ==
    /\ dpc' = "idle"
    /\ lastDone' = Done(op, IF exc = "none" THEN value ELSE Null, via, persisted)
    /\ raised' = (raised \/ Outcome(exc, caught) = "raised")

\* read: if os.path.exists(SIGNAL_FILE)
R_Exists ==
    /\ dpc = "idle"
    /\ IF sigFile.exists
       THEN dpc' = "r_open" /\ UNCHANGED <<lastDone, raised>>
       ELSE Return("read", "none", TRUE, Null, "missing")
    /\ UNCHANGED <<sigFile, clock, wpc, wLinked, issued, persisted, erasedLog>>
    /\ UNCHANGED <<statsVars, filterVars, seqVars, schedVars, loopVars, cacheVars, aggVars,
                   catVars, winVars, slackVars, repVars, recVars, chkVars>>

\* read: with open(SIGNAL_FILE, 'r') as f
R_Open ==
    /\ dpc = "r_open"
    /\ \E fault \in BOOLEAN :
          IF fault \/ ~sigFile.exists
          THEN Return("read", "OSError", read_catches("OSError"), Null, "unreadable")
          ELSE dpc' = "r_read" /\ UNCHANGED <<lastDone, raised>>
    /\ UNCHANGED <<sigFile, clock, wpc, wLinked, issued, persisted, erasedLog>>
    /\ UNCHANGED <<statsVars, filterVars, seqVars, schedVars, loopVars, cacheVars, aggVars,
                   catVars, winVars, slackVars, repVars, recVars, chkVars>>

\* read: return float(f.read().strip())
R_Read ==
    /\ dpc = "r_read"
    /\ \E fault \in BOOLEAN :
          IF fault
          THEN Return("read", "OSError", read_catches("OSError"), Null, "unreadable")
          ELSE LET r == float(strip(sigFile.text))
               IN Return("read", r.exc, read_catches(r.exc), r.value,
                         IF r.exc = "none" THEN "value" ELSE "malformed")
    /\ UNCHANGED <<sigFile, clock, wpc, wLinked, issued, persisted, erasedLog>>
    /\ UNCHANGED <<statsVars, filterVars, seqVars, schedVars, loopVars, cacheVars, aggVars,
                   catVars, winVars, slackVars, repVars, recVars, chkVars>>

\* clear: if os.path.exists(SIGNAL_FILE)
C_Exists ==
    /\ dpc = "idle"
    /\ IF sigFile.exists
       THEN dpc' = "c_remove" /\ UNCHANGED <<lastDone, raised>>
       ELSE Return("clear", "none", TRUE, Null, "missing")
    /\ UNCHANGED <<sigFile, clock, wpc, wLinked, issued, persisted, erasedLog>>
    /\ UNCHANGED <<statsVars, filterVars, seqVars, schedVars, loopVars, cacheVars, aggVars,
                   catVars, winVars, slackVars, repVars, recVars, chkVars>>

\* The dashboard's consumption (spec 5, consumer policy; the consuming code is not in
\* src/): "the signal is consumed (cleared) once observed", a clear that follows a read
\* which returned a timestamp.
DashboardConsumes(done) == done.op = "read" /\ ~done.value.null

\* clear: os.remove(SIGNAL_FILE).  The file a writer holds open is unlinked with it.
C_Remove ==
    /\ dpc = "c_remove"
    /\ \E fault \in BOOLEAN :
          IF fault \/ ~sigFile.exists
          THEN /\ Return("clear", "OSError", clear_catches("OSError"), Null, "unremoved")
               /\ UNCHANGED <<sigFile, wLinked, erasedLog>>
          ELSE /\ sigFile' = remove(sigFile)
               /\ wLinked' = FALSE
               /\ erasedLog' =
                     IF DashboardConsumes(lastDone)
                     THEN erasedLog \cup {[erased |-> ErasedValue(sigFile.text),
                                           read |-> lastDone.value,
                                           seen |-> lastDone.seen]}
                     ELSE erasedLog
               /\ Return("clear", "none", TRUE, Null, "removed")
    /\ UNCHANGED <<clock, wpc, issued, persisted>>
    /\ UNCHANGED <<statsVars, filterVars, seqVars, schedVars, loopVars, cacheVars, aggVars,
                   catVars, winVars, slackVars, repVars, recVars, chkVars>>

(***************************************************************************)
(* Claims about the signal file under concurrency, checked under           *)
(* SpecSignal.                                                             *)
(***************************************************************************)
\* the timestamp a text stands for, read digit by digit; None when it is not a number
TextValue(text) ==
    IF text # <<>> /\ \A i \in 1..Len(text) : text[i] \in DigitChars
    THEN Ts(number_of(text)) ELSE Null

\* C5 as stated: the dashboard's consumption is atomic, reading the timestamp and
\* clearing the signal are one step: what a clear erases is what the read before it
\* returned, so no write is erased without having been observed.
C5_ConsumptionIsAtomic ==
    \A l \in erasedLog : l.erased = l.read

\* C5 amended: consumption is two steps, a read and then a clear, without a lock; the
\* clear erases either the value the read returned or the text of a write that started
\* after that read (its timestamp, or the still empty file), which is then lost
\* unobserved.  No timestamp that was in the file before the read is erased unobserved.
C5_ErasesReadValueOrLaterWrite ==
    \A l \in erasedLog :
        \/ l.erased = l.read
        \/ l.erased.null
        \/ l.erased.ts \notin l.seen

\* C5, the case: a write landed between the read and the clear and was erased unobserved
C5_WriteErasedUnobserved ==
    \E l \in erasedLog : ~l.erased.null /\ l.erased # l.read

\* C6: under every interleaving of write with read and clear, no operation raises and a
\* read returns null or exactly a timestamp that some write wrote.
C6_NoRaiseNoCorruptValue ==
    /\ ~raised
    /\ lastDone.op = "read" =>
          \/ lastDone.value.null
          \/ lastDone.value.ts \in issued

\* C6, the case: a read ran into the file while a write had truncated it
C6_ReadDuringWrite ==
    /\ lastDone.op = "read" /\ lastDone.via = "malformed" /\ wpc = "opened"
    /\ Cardinality(issued) >= 1

(***************************************************************************)
(* Claims about the signal functions called in sequence, checked under     *)
(* SpecSeq.  A call counts as having taken effect when none of its system  *)
(* calls failed (fault = "none").                                          *)
(***************************************************************************)
\* C7: after any sequence of write and clear calls at most one pending value exists: a
\* read returns the timestamp of the most recent write if no clear followed it, and null
\* if the most recent operation was a clear or nothing was ever written.
C7_LastWriteWins ==
    /\ (lastCall.op = "read" /\ lastCall.fault = "none") =>
          /\ (lastChange.op = "write" /\ lastChange.fault = "none")
                => lastCall.value = Ts(lastChange.ts)
          /\ (lastChange.op = "none" \/ (lastChange.op = "clear" /\ lastChange.fault = "none"))
                => lastCall.value = Null
    /\ (lastChange.op = "write" /\ lastChange.fault = "none")
          => sigFile.exists /\ TextValue(sigFile.text) = Ts(lastChange.ts)
    /\ (lastChange.op = "clear" /\ lastChange.fault = "none") => ~sigFile.exists

\* C7, the cases: a read after a write that overwrote an earlier value, and a read after
\* a clear that removed a written value
C7_ReadAfterOverwrite ==
    /\ lastCall.op = "read" /\ lastCall.fault = "none"
    /\ lastChange.op = "write" /\ lastChange.fault = "none" /\ lastChange.existed
    /\ lastChange.ts > 8
    /\ lastCall.value = Ts(lastChange.ts)

\* C8: a write followed immediately by a read returns the written timestamp; a clear
\* followed by a read returns null; a clear of an absent signal is a no-op.
C8_WriteReadClearRead ==
    /\ (lastCall.op = "read" /\ lastCall.fault = "none"
        /\ prevCall.op = "write" /\ prevCall.fault = "none")
          => lastCall.value = Ts(prevCall.ts)
    /\ (lastCall.op = "read" /\ prevCall.op = "clear" /\ prevCall.fault = "none")
          => lastCall.value = Null
    /\ (lastCall.op = "clear" /\ ~lastCall.existed)
          => lastCall.outcome = "returned" /\ sigFile = Absent
    /\ (lastCall.op = "clear" /\ prevCall.op = "clear" /\ prevCall.fault = "none")
          => ~lastCall.existed /\ sigFile = Absent

\* C8, the case: a two-digit timestamp written and read back at once
C8_RoundTripSeen ==
    /\ lastCall.op = "read" /\ lastCall.fault = "none"
    /\ prevCall.op = "write" /\ prevCall.fault = "none"
    /\ prevCall.ts >= 10
    /\ lastCall.value = Ts(prevCall.ts)

\* C9: no signal operation propagates an error to its caller: a failed write returns, a
\* read of a missing, unreadable or malformed file returns null, and clearing a missing
\* file succeeds silently.
C9_NoErrorReachesCaller ==
    /\ lastCall.outcome = "returned"
    /\ prevCall.outcome = "returned"
    /\ (lastCall.op = "read" /\ lastCall.via \in {"missing", "unreadable", "malformed"})
          => lastCall.value = Null
    /\ (lastCall.op = "clear" /\ ~lastCall.existed) => ~sigFile.exists

\* C9, the cases: a read of the file a failed write left empty, after a failed clear
C9_MalformedReadSeen ==
    /\ lastCall.op = "read" /\ lastCall.via = "malformed"
    /\ prevCall.op = "write" /\ prevCall.fault = "write"

(***************************************************************************)
(* The scheduler (src/scheduler.py): main() takes a first snapshot of the  *)
(* modification times and then loops, running the file check and the daily *)
(* report when they are due, one after the other (SpecSched).              *)
(*                                                                         *)
(* A data file is named by its day; the files of the last 24 hours are     *)
(* yesterday's and today's.  Files older than yesterday are never looked   *)
(* at again and are left out of the state.                                 *)
(***************************************************************************)
MaxDay == 3
MaxMtime == 2

Days == 1..MaxDay

NoFile == [exists |-> FALSE, mtime |-> 0]

\* what a data file's content does to the report; the file's bytes are not modelled
\*   "ok"          loads, has a text column heures and the temperature columns
\*   "notemp"      loads, has heures but none of TEMP_COLUMNS
\*   "unloadable"  load_data_file returns None
\*   "badtime"     loads, but heures holds no text (an all-empty or all-numeric column)
ContentKinds == {"ok", "notemp", "unloadable", "badtime"}

\* for d in [yesterday, today]: if os.path.exists(filepath): files.append(filepath)
get_files_for_last_24_hours(fs, day) ==
    SelectSeq(<<day - 1, day>>, LAMBDA d : d \in DOMAIN fs /\ fs[d].exists)

Range(seq) == {seq[i] : i \in 1..Len(seq)}

\* mtimes[f] = os.path.getmtime(f), 0 when the call raises OSError
get_file_modification_times(paths, fs, failing) ==
    [d \in Range(paths) |-> IF d \in failing THEN 0 ELSE fs[d].mtime]

\* a comparison that also takes an equal modification time for a change
ChangedOrEqual(current, previous) ==
    \E d \in DOMAIN current :
        \/ d \in DOMAIN previous /\ current[d] >= previous[d]
        \/ d \notin DOMAIN previous

\* the loop over current_mtimes of check_file_updates
files_changed(current, previous) ==
    \E d \in DOMAIN current :
        \/ d \in DOMAIN previous /\ current[d] > previous[d]
        \/ d \notin DOMAIN previous

\* load_multiple_files as far as the report depends on it: None, a dataset with or
\* without temperature columns, or the TypeError of `file_date + ' ' + df['time_str']`
\* on a time column that is not text, which `except ValueError` does not catch
load_multiple_files_outcome(paths, kinds) ==
    LET loaded == SelectSeq(paths, LAMBDA d : kinds[d] # "unloadable")
    IN IF paths = <<>> THEN "none"
       ELSE IF \E i \in 1..Len(loaded) : kinds[loaded[i]] = "badtime" THEN "TypeError"
       ELSE IF loaded = <<>> THEN "none"
       ELSE IF \E i \in 1..Len(loaded) : kinds[loaded[i]] = "ok" THEN "dataset"
       ELSE "dataset_notemp"

\* send_scheduled_report(): what it returns, or that it raises
send_scheduled_report(cfg, fs, day, kinds, slack_ok) ==
    LET paths == get_files_for_last_24_hours(fs, day)
        loaded == load_multiple_files_outcome(paths, kinds)
    IN IF ~cfg.token THEN [result |-> "false", reason |-> "no_token", posted |-> FALSE]
       ELSE IF cfg.target = "none"
            THEN [result |-> "false", reason |-> "no_target", posted |-> FALSE]
       ELSE IF paths = <<>>
            THEN [result |-> "false", reason |-> "no_files", posted |-> FALSE]
       ELSE IF loaded = "TypeError"
            THEN [result |-> "raised", reason |-> "TypeError", posted |-> FALSE]
       ELSE IF loaded = "none"
            THEN [result |-> "false", reason |-> "load_failed", posted |-> FALSE]
       ELSE IF loaded = "dataset_notemp"
            THEN [result |-> "false", reason |-> "no_stats", posted |-> FALSE]
       ELSE IF slack_ok THEN [result |-> "true", reason |-> "sent", posted |-> TRUE]
       ELSE [result |-> "false", reason |-> "slack_failed", posted |-> FALSE]

\* main(): `except Exception` sits outside `while True`, so an exception that leaves
\* schedule.run_pending() is logged and ends the loop
loop_after_job(result) == IF result = "raised" THEN "stopped_error" ELSE "running"

Configs == [token : BOOLEAN, target : {"channel", "user", "none"}]

NoJob == [job |-> "none", result |-> "none", reason |-> "none"]

SchedIdle ==
    /\ schedPc = "off"
    /\ today = 2
    /\ dataFiles = [d \in {1, 2} |-> NoFile]
    /\ file_mtimes = [d \in {} |-> 0]
    /\ config = [token |-> FALSE, target |-> "none"]
    /\ lastJob = NoJob

\* main() up to the loop: file_mtimes = get_file_modification_times(get_files_for_last_24_hours())
InitSched ==
    /\ schedPc = "running"
    /\ today \in 2..MaxDay
    /\ dataFiles \in [{today - 1, today} ->
                        {NoFile} \cup [exists : {TRUE}, mtime : 1..MaxMtime]]
    /\ \E failing \in SUBSET Range(get_files_for_last_24_hours(dataFiles, today)) :
          file_mtimes = get_file_modification_times(
                            get_files_for_last_24_hours(dataFiles, today), dataFiles, failing)
    /\ config \in Configs
    /\ lastJob = NoJob

\* run_pending() runs job_check_files: check_file_updates()
RunCheckJob ==
    /\ schedPc = "running"
    /\ \E failing \in SUBSET Range(get_files_for_last_24_hours(dataFiles, today)),
          fault \in {"none", "open", "write"} :
          LET current == get_file_modification_times(
                             get_files_for_last_24_hours(dataFiles, today), dataFiles, failing)
              changed == files_changed(current, file_mtimes)
          IN /\ file_mtimes' = current
             /\ sigFile' = IF changed THEN write_refresh_signal(sigFile, clock, fault).file
                           ELSE sigFile
             /\ lastJob' = [job |-> "check", result |-> IF changed THEN "true" ELSE "false",
                            reason |-> "none"]
    /\ schedPc' = loop_after_job("returned")
    /\ UNCHANGED <<clock, today, dataFiles, config>>
    /\ UNCHANGED <<statsVars, filterVars, seqVars, concVars, loopVars, cacheVars, aggVars,
                   catVars, winVars, slackVars, repVars, recVars, chkVars>>

\* run_pending() runs job_send_daily_report: send_scheduled_report()
RunReportJob ==
    /\ schedPc = "running"
    /\ \E kinds \in [Range(get_files_for_last_24_hours(dataFiles, today)) -> ContentKinds],
          slack_ok \in BOOLEAN :
          LET r == send_scheduled_report(config, dataFiles, today, kinds, slack_ok)
          IN /\ lastJob' = [job |-> "report", result |-> r.result, reason |-> r.reason]
             /\ schedPc' = loop_after_job(r.result)
    /\ UNCHANGED <<sigFile, clock, today, dataFiles, file_mtimes, config>>
    /\ UNCHANGED <<statsVars, filterVars, seqVars, concVars, loopVars, cacheVars, aggVars,
                   catVars, winVars, slackVars, repVars, recVars, chkVars>>

\* KeyboardInterrupt: "Scheduler stopped by user"
Interrupt ==
    /\ schedPc = "running"
    /\ schedPc' = "stopped_user"
    /\ UNCHANGED <<sigFile, clock, today, dataFiles, file_mtimes, config, lastJob>>
    /\ UNCHANGED <<statsVars, filterVars, seqVars, concVars, loopVars, cacheVars, aggVars,
                   catVars, winVars, slackVars, repVars, recVars, chkVars>>

\* the acquisition writes today's or yesterday's file: it appears, or its mtime grows
TouchFile ==
    /\ \E d \in {today - 1, today} :
          \/ /\ ~dataFiles[d].exists
             /\ \E m \in 1..MaxMtime :
                   dataFiles' = [dataFiles EXCEPT ![d] = [exists |-> TRUE, mtime |-> m]]
          \/ /\ dataFiles[d].exists
             /\ dataFiles[d].mtime < MaxMtime
             /\ dataFiles' = [dataFiles EXCEPT ![d].mtime = @ + 1]
    /\ UNCHANGED <<sigFile, clock, today, file_mtimes, config, lastJob, schedPc>>
    /\ UNCHANGED <<statsVars, filterVars, seqVars, concVars, loopVars, cacheVars, aggVars,
                   catVars, winVars, slackVars, repVars, recVars, chkVars>>

\* a data file is removed
RemoveFile ==
    /\ \E d \in {today - 1, today} :
          /\ dataFiles[d].exists
          /\ dataFiles' = [dataFiles EXCEPT ![d] = NoFile]
    /\ UNCHANGED <<sigFile, clock, today, file_mtimes, config, lastJob, schedPc>>
    /\ UNCHANGED <<statsVars, filterVars, seqVars, concVars, loopVars, cacheVars, aggVars,
                   catVars, winVars, slackVars, repVars, recVars, chkVars>>

\* midnight: today becomes yesterday
NewDay ==
    /\ today < MaxDay
    /\ today' = today + 1
    /\ dataFiles' = [d \in {today, today + 1} |-> IF d = today THEN dataFiles[today] ELSE NoFile]
    /\ UNCHANGED <<sigFile, clock, file_mtimes, config, lastJob, schedPc>>
    /\ UNCHANGED <<statsVars, filterVars, seqVars, concVars, loopVars, cacheVars, aggVars,
                   catVars, winVars, slackVars, repVars, recVars, chkVars>>

(***************************************************************************)
(* Claims about the scheduler loop, checked under SpecSched.               *)
(***************************************************************************)
\* C10: when a scheduled job fails, also by raising an exception, the scheduler logs the
\* failure and its loop keeps running: the failure of a job never ends the loop, so later
\* check ticks and report ticks are still executed.
C10_LoopSurvivesJobFailure ==
    lastJob.result \in {"false", "raised"} => schedPc \in {"running", "stopped_user"}

\* C10, the case: a report job has raised
C10_ReportRaised ==
    /\ lastJob.job = "report"
    /\ lastJob.result = "raised"

(***************************************************************************)
(* main()'s loop step by step (SpecLoop): the thread's call stack while    *)
(* schedule.run_pending() calls the jobs that are due.  A job is in        *)
(* progress while its frame is on a stack.  What the jobs do to the files  *)
(* is the subject of SpecSched; here only their positions are followed.    *)
(***************************************************************************)
MaxRuns == 2

Jobs == {"job_check_files", "job_send_daily_report"}

Frame(fn, pc) == [fn |-> fn, pc |-> pc]

\* a job started on a thread of its own, its caller going on at once
RunJobInThread(stks, t, job, entry) == Append(stks, <<Frame(job, entry)>>)

\* schedule's _run_job(job): ret = job.run(), a plain call on the calling thread
run_job(stks, t, job, entry) == [stks EXCEPT ![t] = Append(@, Frame(job, entry))]

\* the first statement of a job
entry_of(job) == IF job = "job_check_files" THEN "snapshot" ELSE "config"

Top(stk) == stk[Len(stk)]

Pop(stk) == SubSeq(stk, 1, Len(stk) - 1)

\* the statements of check_file_updates that use the module's file_mtimes: the
\* comparison loop reads it, `file_mtimes = current_mtimes` writes it
UsesFileMtimes(frame) == frame.fn = "job_check_files" /\ frame.pc \in {"compare", "store"}

\* sorted(runnable_jobs): the due jobs in the order of their next_run
Orders(jobs) ==
    {order \in UNION {[1..n -> jobs] : n \in 0..2} :
        /\ Len(order) = Cardinality(jobs)
        /\ Range(order) = jobs}

LoopIdle ==
    /\ stacks = <<>>
    /\ runnable = <<>>
    /\ due = {}
    /\ ran = [j \in Jobs |-> 0]

\* main() has scheduled both jobs and enters `while True`
InitLoop ==
    /\ stacks = << <<Frame("main", "run_pending")>> >>
    /\ runnable = <<>>
    /\ due = {}
    /\ ran = [j \in Jobs |-> 0]

\* time passes and a job's next_run is reached
BecomeDue ==
    /\ \E j \in Jobs :
          /\ j \notin due
          /\ ran[j] < MaxRuns
          /\ due' = due \cup {j}
    /\ UNCHANGED <<stacks, runnable, ran>>
    /\ UNCHANGED <<statsVars, filterVars, fileVars, seqVars, concVars, schedVars, cacheVars,
                   aggVars, catVars, winVars, slackVars, repVars, recVars, chkVars>>

\* schedule.run_pending(): runnable_jobs = (job for job in self.jobs if job.should_run)
RunPending ==
    /\ \E t \in 1..Len(stacks) :
          /\ stacks[t] # <<>>
          /\ Top(stacks[t]) = Frame("main", "run_pending")
          /\ \E order \in Orders(due) :
                /\ runnable' = order
                /\ stacks' = [stacks EXCEPT ![t] = Append(@, Frame("run_pending", "loop"))]
    /\ UNCHANGED <<due, ran>>
    /\ UNCHANGED <<statsVars, filterVars, fileVars, seqVars, concVars, schedVars, cacheVars,
                   aggVars, catVars, winVars, slackVars, repVars, recVars, chkVars>>

\* for job in sorted(runnable_jobs): self._run_job(job)
RunJob ==
    /\ \E t \in 1..Len(stacks) :
          /\ stacks[t] # <<>>
          /\ Top(stacks[t]) = Frame("run_pending", "loop")
          /\ runnable # <<>>
          /\ stacks' = run_job(stacks, t, Head(runnable), entry_of(Head(runnable)))
          /\ runnable' = Tail(runnable)
    /\ UNCHANGED <<due, ran>>
    /\ UNCHANGED <<statsVars, filterVars, fileVars, seqVars, concVars, schedVars, cacheVars,
                   aggVars, catVars, winVars, slackVars, repVars, recVars, chkVars>>

\* a job returns to its caller; the job is rescheduled (last_run, _schedule_next_run)
JobReturns(t, job) ==
    /\ stacks' = [stacks EXCEPT ![t] = Pop(@)]
    /\ due' = due \ {job}
    /\ ran' = [ran EXCEPT ![job] = @ + 1]

\* job_check_files: check_file_updates(), statement by statement
CheckFilesStep ==
    /\ \E t \in 1..Len(stacks) :
          /\ stacks[t] # <<>>
          /\ Top(stacks[t]).fn = "job_check_files"
          /\ LET pc == Top(stacks[t]).pc
                 goto(next) == /\ stacks' = [stacks EXCEPT ![t] =
                                                Append(Pop(@), Frame("job_check_files", next))]
                               /\ UNCHANGED <<due, ran>>
             IN CASE pc = "snapshot" -> goto("compare")
                  [] pc = "compare" -> goto("store")
                  [] pc = "store" -> \/ goto("signal")
                                     \/ JobReturns(t, "job_check_files")
                  [] pc = "signal" -> JobReturns(t, "job_check_files")
    /\ UNCHANGED runnable
    /\ UNCHANGED <<statsVars, filterVars, fileVars, seqVars, concVars, schedVars, cacheVars,
                   aggVars, catVars, winVars, slackVars, repVars, recVars, chkVars>>

\* job_send_daily_report: send_scheduled_report(), statement by statement
SendReportStep ==
    /\ \E t \in 1..Len(stacks) :
          /\ stacks[t] # <<>>
          /\ Top(stacks[t]).fn = "job_send_daily_report"
          /\ LET pc == Top(stacks[t]).pc
                 goto(next) == /\ stacks' = [stacks EXCEPT ![t] =
                                                Append(Pop(@), Frame("job_send_daily_report", next))]
                               /\ UNCHANGED <<due, ran>>
             IN CASE pc = "config" -> \/ goto("load")
                                      \/ JobReturns(t, "job_send_daily_report")
                  [] pc = "load" -> \/ goto("send")
                                    \/ JobReturns(t, "job_send_daily_report")
                  [] pc = "send" -> JobReturns(t, "job_send_daily_report")
    /\ UNCHANGED runnable
    /\ UNCHANGED <<statsVars, filterVars, fileVars, seqVars, concVars, schedVars, cacheVars,
                   aggVars, catVars, winVars, slackVars, repVars, recVars, chkVars>>

\* load_multiple_files raises in the report job: the exception unwinds the thread's
\* stack to main()'s `except Exception`, and main() returns
ReportRaises ==
    /\ \E t \in 1..Len(stacks) :
          /\ stacks[t] # <<>>
          /\ Top(stacks[t]) = Frame("job_send_daily_report", "load")
          /\ stacks' = [stacks EXCEPT ![t] = <<>>]
    /\ UNCHANGED <<runnable, due, ran>>
    /\ UNCHANGED <<statsVars, filterVars, fileVars, seqVars, concVars, schedVars, cacheVars,
                   aggVars, catVars, winVars, slackVars, repVars, recVars, chkVars>>

\* run_pending() has run every runnable job and returns; main() goes on to time.sleep(1)
RunPendingReturns ==
    /\ \E t \in 1..Len(stacks) :
          /\ stacks[t] # <<>>
          /\ Top(stacks[t]) = Frame("run_pending", "loop")
          /\ runnable = <<>>
          /\ stacks' = [stacks EXCEPT ![t] = <<Frame("main", "sleep")>>]
    /\ UNCHANGED <<runnable, due, ran>>
    /\ UNCHANGED <<statsVars, filterVars, fileVars, seqVars, concVars, schedVars, cacheVars,
                   aggVars, catVars, winVars, slackVars, repVars, recVars, chkVars>>

\* time.sleep(1) returns and the loop starts over
Sleep ==
    /\ \E t \in 1..Len(stacks) :
          /\ stacks[t] # <<>>
          /\ Top(stacks[t]) = Frame("main", "sleep")
          /\ stacks' = [stacks EXCEPT ![t] = <<Frame("main", "run_pending")>>]
    /\ UNCHANGED <<runnable, due, ran>>
    /\ UNCHANGED <<statsVars, filterVars, fileVars, seqVars, concVars, schedVars, cacheVars,
                   aggVars, catVars, winVars, slackVars, repVars, recVars, chkVars>>

(***************************************************************************)
(* Claims about the loop, checked under SpecLoop.                          *)
(***************************************************************************)
\* the job executions in progress: the job frames on the stacks
InProgress ==
    {<<t, i>> \in (1..Len(stacks)) \X (1..3) : i <= Len(stacks[t]) /\ stacks[t][i].fn \in Jobs}

\* C11: the file check and the daily report run strictly one after the other: at no time
\* are two job executions in progress, and at no time does more than one job execution
\* stand at a statement that reads or writes file_mtimes.
C11_JobsNeverOverlap ==
    /\ Cardinality(InProgress) <= 1
    /\ Cardinality({x \in InProgress : UsesFileMtimes(stacks[x[1]][x[2]])}) <= 1
    /\ \A x \in InProgress : stacks[x[1]][x[2]].fn = "job_send_daily_report"
                                => ~UsesFileMtimes(stacks[x[1]][x[2]])

\* C11, the case: both jobs were due in one run_pending(); the first is in progress at
\* a statement that uses file_mtimes while the second still waits for it to return
C11_SecondJobWaits ==
    /\ runnable = <<"job_send_daily_report">>
    /\ \E x \in InProgress : UsesFileMtimes(stacks[x[1]][x[2]])

(***************************************************************************)
(* The dashboard's loader cache (src/app.py): load_single_file_cached is   *)
(* memoised by st.cache(ttl=300), keyed by its argument, the file path;    *)
(* "Refresh Data" calls st.caching.clear_cache() before the script loads   *)
(* its files (SpecCache).  A file's content is modelled by a version       *)
(* number that grows with every change; a Record remembers the version it  *)
(* was parsed from.  Time is counted in seconds and moves in steps of 100. *)
(***************************************************************************)
MaxVersion == 2
MaxClock == 400
MaxRefreshes == 1

ttl == 300

Paths == {"010124.txt", "010224.txt"}

NoEntries == [p \in {} |-> 0]

\* load_data(filepath): the Record parsed from the file as it is now
load_data(files, path, t, epoch) ==
    [version |-> files[path], storedAt |-> t, epoch |-> epoch]

\* an entry of the cache's TTLCache is served until its ttl has passed
fresh(entry, t) == t - entry.storedAt < ttl

\* a cache that is left as it is
KeepCache(cache) == cache

\* st.caching.clear_cache()
clear_cache(cache) == NoEntries

\* load_single_file_cached(filepath): the cached Record when the path has a fresh
\* entry, else load_data(filepath), which is stored under the path
load_single_file_cached(cache, files, path, t, epoch) ==
    IF path \in DOMAIN cache /\ fresh(cache[path], t)
    THEN [cache |-> cache, record |-> cache[path], hit |-> TRUE]
    ELSE LET record == load_data(files, path, t, epoch)
         IN [cache |-> [p \in DOMAIN cache \cup {path} |->
                           IF p = path THEN record ELSE cache[p]],
             record |-> record, hit |-> FALSE]

\* the loop of load_multiple_data_files over filepaths, as far as the cache goes
RECURSIVE load_each(_, _, _, _, _)
load_each(cache, files, paths, t, epoch) ==
    IF paths = <<>> THEN [cache |-> cache, results |-> <<>>]
    ELSE LET first == load_single_file_cached(cache, files, Head(paths), t, epoch)
             rest == load_each(first.cache, files, Tail(paths), t, epoch)
         IN [cache |-> rest.cache,
             results |-> <<[path |-> Head(paths), record |-> first.record, hit |-> first.hit,
                            onDisk |-> files[Head(paths)],
                            age |-> t - first.record.storedAt]>> \o rest.results]

\* files_to_load: the files of the selected date range, in date order
FilesToLoad == {<<>>, <<"010124.txt">>, <<"010224.txt">>, <<"010124.txt", "010224.txt">>}

NoRun == [refresh |-> FALSE, hadFresh |-> {}, results |-> <<>>]

CacheIdle ==
    /\ cacheFiles = [p \in Paths |-> 1]
    /\ memCache = NoEntries
    /\ cacheClock = 0
    /\ refreshes = 0
    /\ lastRun = NoRun

\* the dashboard process starts with an empty cache
InitCache ==
    /\ cacheFiles = [p \in Paths |-> 1]
    /\ memCache = NoEntries
    /\ cacheClock = 0
    /\ refreshes = 0
    /\ lastRun = NoRun

\* one run of the dashboard script: with the "Refresh Data" button pressed it clears the
\* cache, then it loads the files of the selected range
RunScript ==
    /\ \E button \in BOOLEAN, paths \in FilesToLoad :
          /\ button => refreshes < MaxRefreshes
          /\ LET epoch == IF button THEN refreshes + 1 ELSE refreshes
                 cache == IF button THEN clear_cache(memCache) ELSE memCache
                 loaded == load_each(cache, cacheFiles, paths, cacheClock, epoch)
             IN /\ refreshes' = epoch
                /\ memCache' = loaded.cache
                /\ lastRun' = [refresh |-> button,
                               hadFresh |-> {p \in DOMAIN memCache : fresh(memCache[p], cacheClock)},
                               results |-> loaded.results]
    /\ UNCHANGED <<cacheFiles, cacheClock>>
    /\ UNCHANGED <<statsVars, filterVars, fileVars, seqVars, concVars, schedVars, loopVars,
                   aggVars, catVars, winVars, slackVars, repVars, recVars, chkVars>>

\* the acquisition appends to a data file
ModifyFile ==
    /\ \E p \in Paths :
          /\ cacheFiles[p] < MaxVersion
          /\ cacheFiles' = [cacheFiles EXCEPT ![p] = @ + 1]
    /\ UNCHANGED <<memCache, cacheClock, refreshes, lastRun>>
    /\ UNCHANGED <<statsVars, filterVars, fileVars, seqVars, concVars, schedVars, loopVars,
                   aggVars, catVars, winVars, slackVars, repVars, recVars, chkVars>>

\* 100 seconds pass
TimePasses ==
    /\ cacheClock + 100 <= MaxClock
    /\ cacheClock' = cacheClock + 100
    /\ UNCHANGED <<cacheFiles, memCache, refreshes, lastRun>>
    /\ UNCHANGED <<statsVars, filterVars, fileVars, seqVars, concVars, schedVars, loopVars,
                   aggVars, catVars, winVars, slackVars, repVars, recVars, chkVars>>

(***************************************************************************)
(* Claims about the loader cache, checked under SpecCache.                 *)
(***************************************************************************)
Results == {lastRun.results[i] : i \in 1..Len(lastRun.results)}

\* C12: after a hard refresh the next load of every file re-parses it: the run that
\* clears the cache serves no load from the cache, and no Record stored before the latest
\* refresh is ever returned afterwards, fresh or not.
C12_RefreshReparses ==
    /\ lastRun.refresh => \A r \in Results : ~r.hit /\ r.record.version = r.onDisk
    /\ \A r \in Results : r.record.epoch = refreshes

\* C12, the case: a refreshing run loaded a file whose entry was still fresh
C12_FreshEntryDiscarded ==
    /\ lastRun.refresh
    /\ \E r \in Results : r.path \in lastRun.hadFresh

\* C13: the cache returns a stored Record only for a file that is unchanged since the
\* Record was parsed and only within the freshness window of 300 s.
C13_HitOnlyUnchangedAndFresh ==
    \A r \in Results : r.hit => r.record.version = r.onDisk /\ r.age < ttl

\* C13, the case: a load was served from the cache
C13_ServedFromCache ==
    \E r \in Results : r.hit

(***************************************************************************)
(* The aggregator (src/core.py): load_multiple_files applied to bounded    *)
(* lists of files (SpecAgg).  A file name is its stem, a sequence of       *)
(* characters, followed by ".txt"; a time of day "10:00:00" is the tuple   *)
(* of its fields, as in the filter; a decoded date "2024-01-01" is the     *)
(* tuple <<2024, 1, 1>>.                                                   *)
(***************************************************************************)
MaxFiles == 2

\* the characters of s from position i on, n of them, are digits
DigitsAt(s, i, n) == i + n - 1 <= Len(s) /\ \A k \in i..(i + n - 1) : s[k] \in DigitChars

NumberAt(s, i, n) == number_of(SubSeq(s, i, i + n - 1))

\* %m: 1[0-2]|0[1-9]|[1-9]     %d: 3[01]|[12]\d|0[1-9]|[1-9]     %y: \d\d
MonthAt(s, i, n) ==
    DigitsAt(s, i, n) /\ NumberAt(s, i, n) \in (IF n = 2 THEN 1..12 ELSE 1..9)

DayAt(s, i, n) ==
    DigitsAt(s, i, n) /\ NumberAt(s, i, n) \in (IF n = 2 THEN 1..31 ELSE 1..9)

\* the widths of month and day in the order the regular expression tries them
Widths == << <<2, 2>>, <<2, 1>>, <<1, 2>>, <<1, 1>> >>

MatchesAt(s, w) ==
    /\ MonthAt(s, 1, w[1])
    /\ DayAt(s, 1 + w[1], w[2])
    /\ DigitsAt(s, 1 + w[1] + w[2], 2)

NoDate == [ok |-> FALSE, ymd |-> <<>>]

\* a decoding that reads the stem as DDMMYY
StrptimeDayFirst(s) ==
    IF Len(s) = 6 /\ DigitsAt(s, 1, 6) /\ NumberAt(s, 3, 2) \in 1..12
           /\ NumberAt(s, 1, 2) \in 1..DaysInMonth(2000 + NumberAt(s, 5, 2), NumberAt(s, 3, 2))
    THEN [ok |-> TRUE, ymd |-> <<2000 + NumberAt(s, 5, 2), NumberAt(s, 3, 2), NumberAt(s, 1, 2)>>]
    ELSE NoDate

\* datetime.strptime(base, "%m%d%y"): the first match of the format's regular expression
\* must end where the text ends, the two-digit year is pivoted at 69 and the day must
\* exist in the month; ValueError otherwise (ok = FALSE)
strptime(s) ==
    IF \E i \in 1..4 : MatchesAt(s, Widths[i])
    THEN LET w == Widths[CHOOSE i \in 1..4 :
                            MatchesAt(s, Widths[i]) /\ \A j \in 1..(i - 1) : ~MatchesAt(s, Widths[j])]
             m == NumberAt(s, 1, w[1])
             d == NumberAt(s, 1 + w[1], w[2])
             yy == NumberAt(s, 1 + w[1] + w[2], 2)
             y == IF yy < 69 THEN 2000 + yy ELSE 1900 + yy
         IN IF w[1] + w[2] + 2 = Len(s) /\ d <= DaysInMonth(y, m)
            THEN [ok |-> TRUE, ymd |-> <<y, m, d>>]
            ELSE NoDate
    ELSE NoDate

\* a cell of a text column, a NaN, or no such column
Text(t) == [kind |-> "text", text |-> t]
NaNCell == [kind |-> "nan", text |-> <<>>]
NoColumn == [kind |-> "absent", text |-> <<>>]

\* df['file_date']: strftime("%Y-%m-%d") of the decoded date, or the raw stem
IsoDate(ymd) == [iso |-> TRUE, ymd |-> ymd, raw |-> <<>>]
RawStem(base) == [iso |-> FALSE, ymd |-> <<>>, raw |-> base]

\* the rows of one loaded file with file_date and datetime_str added; src names the row
\* by the position of its file in the list and its position in the file
with_dates(file, f) ==
    LET parsed == strptime(file.stem)
        time_str(r) == IF file.timeCol = "text" THEN Text(r.time)
                       ELSE IF file.timeCol = "nontext" THEN NaNCell ELSE NoColumn
    IN [i \in 1..Len(file.rows) |->
          [src |-> <<f, i>>,
           v |-> file.rows[i].v,
           time_str |-> time_str(file.rows[i]),
           file_date |-> IF parsed.ok THEN IsoDate(parsed.ymd) ELSE RawStem(file.stem),
           datetime_str |->
               IF file.timeCol = "absent" THEN NoColumn
               ELSE IF parsed.ok THEN Text(parsed.ymd \o file.rows[i].time)
               ELSE time_str(file.rows[i])]]

\* file_date + ' ' + df['time_str'] raises TypeError on a column that is not text; the
\* statement is reached only when the stem was decoded
raises_TypeError(file) ==
    file.loads /\ strptime(file.stem).ok /\ file.timeCol = "nontext"

\* the frames in reverse order
ConcatReversed(dfs) ==
    IF dfs = <<>> THEN <<>>
    ELSE LET RECURSIVE rev(_)
             rev(k) == IF k = 0 THEN <<>> ELSE dfs[k] \o rev(k - 1)
         IN rev(Len(dfs))

\* pd.concat(all_dfs, ignore_index=True)
concat(dfs) ==
    IF dfs = <<>> THEN <<>>
    ELSE LET RECURSIVE cat(_)
             cat(k) == IF k = 0 THEN <<>> ELSE cat(k - 1) \o dfs[k]
         IN cat(Len(dfs))

NoneResult == [kind |-> "None", rows |-> <<>>]

\* load_multiple_files(filepaths)
load_multiple_files(files) ==
    LET loaded == SelectSeq([f \in 1..Len(files) |-> [f |-> f, file |-> files[f]]],
                            LAMBDA x : x.file.loads)
        all_dfs == [k \in 1..Len(loaded) |-> with_dates(loaded[k].file, loaded[k].f)]
    IN IF files = <<>> THEN NoneResult
       ELSE IF \E f \in 1..Len(files) : raises_TypeError(files[f])
            THEN [kind |-> "TypeError", rows |-> <<>>]
       ELSE IF all_dfs = <<>> THEN NoneResult
       ELSE [kind |-> "dataset", rows |-> concat(all_dfs)]

AggStems ==
    {<<"0", "1", "0", "1", "2", "4">>, <<"0", "1", "0", "2", "2", "4">>,
     <<"0", "2", "3", "0", "2", "4">>, <<"n", "o", "t", "e", "s">>}

\* what load_data_file makes of a file: None, or rows with or without a time column
AggContents ==
    {[loads |-> FALSE, timeCol |-> "absent", rows |-> <<>>],
     [loads |-> TRUE, timeCol |-> "text", rows |-> <<>>],
     [loads |-> TRUE, timeCol |-> "text", rows |-> <<[v |-> 1, time |-> <<10, 0, 0>>]>>],
     [loads |-> TRUE, timeCol |-> "text",
      rows |-> <<[v |-> 2, time |-> <<10, 0, 0>>], [v |-> 1, time |-> <<9, 0, 0>>]>>],
     [loads |-> TRUE, timeCol |-> "text",
      rows |-> <<[v |-> 1, time |-> <<10, 0, 0>>], [v |-> 1, time |-> <<10, 0, 0>>]>>],
     [loads |-> TRUE, timeCol |-> "absent", rows |-> <<[v |-> 1, time |-> <<>>]>>],
     [loads |-> TRUE, timeCol |-> "nontext", rows |-> <<[v |-> 1, time |-> <<>>]>>]}

AggFiles ==
    {[stem |-> s, loads |-> c.loads, timeCol |-> c.timeCol, rows |-> c.rows] :
        s \in AggStems, c \in AggContents}

AggInputs == UNION {[1..n -> AggFiles] : n \in 0..MaxFiles}

AggIdle ==
    /\ aggFiles = <<>>
    /\ aggResult = NoneResult
    /\ aggPhase = "off"

InitAgg ==
    /\ aggFiles \in AggInputs
    /\ aggResult = NoneResult
    /\ aggPhase = "input"

\* aggResult = load_multiple_files(aggFiles)
LoadMultipleFiles ==
    /\ aggPhase = "input"
    /\ aggResult' = load_multiple_files(aggFiles)
    /\ aggPhase' = "done"
    /\ UNCHANGED aggFiles
    /\ UNCHANGED <<statsVars, filterVars, fileVars, seqVars, concVars, schedVars, loopVars,
                   cacheVars, catVars, winVars, slackVars, repVars, recVars, chkVars>>

(***************************************************************************)
(* Claims about the aggregator, checked under SpecAgg.                     *)
(***************************************************************************)
AggDone == aggPhase = "done"

Loaded == {f \in 1..Len(aggFiles) : aggFiles[f].loads}

OutRows == aggResult.rows

\* the rows of the files that loaded, each named by file and position
RowsOfLoaded == UNION {{<<f, i>> : i \in 1..Len(aggFiles[f].rows)} : f \in Loaded}

\* C14: load_multiple_files returns null exactly when the list is empty or every file
\* failed to load; when at least one file loads the result is a Dataset with exactly the
\* rows of the files that loaded; no exception reaches the caller.
C14_NullIffNothingLoaded ==
    AggDone =>
        /\ aggResult.kind # "TypeError"
        /\ (aggResult.kind = "None") <=> (Loaded = {})
        /\ Loaded # {} =>
              /\ aggResult.kind = "dataset"
              /\ {OutRows[k].src : k \in 1..Len(OutRows)} = RowsOfLoaded

\* C14, the case: one file of the list failed to load and another one loaded
C14_OneFailedOneLoaded ==
    /\ AggDone
    /\ Loaded # {}
    /\ \E f \in 1..Len(aggFiles) : ~aggFiles[f].loads

Before(a, b) == a[1] < b[1] \/ (a[1] = b[1] /\ a[2] < b[2])

\* C15: a returned Dataset holds the loaded files' rows in input file order and, within a
\* file, in the order read: as many rows as the files have together, each row with the
\* value it had in its file, duplicates kept, nothing re-sorted.
C15_RowsInInputOrder ==
    (AggDone /\ aggResult.kind = "dataset") =>
        /\ Len(OutRows) = Cardinality(RowsOfLoaded)
        /\ \A k \in 1..Len(OutRows) :
              /\ OutRows[k].src \in RowsOfLoaded
              /\ OutRows[k].v = aggFiles[OutRows[k].src[1]].rows[OutRows[k].src[2]].v
        /\ \A j, k \in 1..Len(OutRows) : j < k => Before(OutRows[j].src, OutRows[k].src)

\* C15, the case: a Dataset of two files that has equal rows and values out of order
C15_DuplicatesAndUnsortedKept ==
    /\ AggDone /\ aggResult.kind = "dataset"
    /\ Cardinality(Loaded) = 2
    /\ \E j, k \in 1..Len(OutRows) :
          j < k /\ OutRows[j].v > OutRows[k].v
    /\ \E j, k \in 1..Len(OutRows) :
          /\ j < k
          /\ OutRows[j].v = OutRows[k].v
          /\ OutRows[j].datetime_str = OutRows[k].datetime_str

\* a stem of six digits MMDDYY that names a day of the calendar, and that day
IsMMDDYY(s) ==
    /\ Len(s) = 6
    /\ \A i \in 1..6 : s[i] \in DigitChars
    /\ DigitValue(s[1]) * 10 + DigitValue(s[2]) \in 1..12
    /\ LET yy == DigitValue(s[5]) * 10 + DigitValue(s[6])
       IN DigitValue(s[3]) * 10 + DigitValue(s[4])
              \in 1..MonthLengths(IF yy < 69 THEN 2000 + yy ELSE 1900 + yy)[
                         DigitValue(s[1]) * 10 + DigitValue(s[2])]

DateOfMMDDYY(s) ==
    LET yy == DigitValue(s[5]) * 10 + DigitValue(s[6])
    IN <<IF yy < 69 THEN 2000 + yy ELSE 1900 + yy,
         DigitValue(s[1]) * 10 + DigitValue(s[2]),
         DigitValue(s[3]) * 10 + DigitValue(s[4])>>

\* a stem that cannot be read as a date: a character that is no digit, or six digits
\* whose month or day does not exist
NotADate(s) ==
    \/ \E i \in 1..Len(s) : s[i] \notin DigitChars
    \/ Len(s) = 6 /\ ~IsMMDDYY(s)

\* C16: in a returned Dataset every row of a file named MMDDYY.txt has file_date = the
\* decoded date and datetime = file_date followed by the row's time of day; every row
\* of a file whose name is no date has file_date = the raw stem and datetime = the time
\* of day alone, and such a name alone never makes the aggregation fail.  010124.txt and
\* 010224.txt with 10:00:00 give 2024-01-01 10:00:00, then 2024-01-02 10:00:00.
C16_DatesFromFilenames ==
    AggDone =>
        /\ aggResult.kind = "dataset" =>
              \A k \in 1..Len(OutRows) :
                 LET file == aggFiles[OutRows[k].src[1]]
                     row == file.rows[OutRows[k].src[2]]
                 IN /\ IsMMDDYY(file.stem) =>
                          /\ OutRows[k].file_date = IsoDate(DateOfMMDDYY(file.stem))
                          /\ file.timeCol = "text" =>
                                OutRows[k].datetime_str
                                    = Text(DateOfMMDDYY(file.stem) \o row.time)
                    /\ NotADate(file.stem) =>
                          /\ OutRows[k].file_date = RawStem(file.stem)
                          /\ file.timeCol = "text" => OutRows[k].datetime_str = Text(row.time)
        /\ (\A f \in 1..Len(aggFiles) : NotADate(aggFiles[f].stem)) =>
              /\ aggResult.kind # "TypeError"
              /\ Loaded # {} => aggResult.kind = "dataset"
        /\ (/\ Len(aggFiles) = 2
            /\ aggFiles[1].stem = <<"0", "1", "0", "1", "2", "4">>
            /\ aggFiles[2].stem = <<"0", "1", "0", "2", "2", "4">>
            /\ \A f \in 1..2 : /\ aggFiles[f].loads /\ aggFiles[f].timeCol = "text"
                               /\ aggFiles[f].rows = <<[v |-> 1, time |-> <<10, 0, 0>>]>>) =>
              /\ aggResult.kind = "dataset"
              /\ [k \in 1..Len(OutRows) |-> OutRows[k].datetime_str]
                    = <<Text(<<2024, 1, 1, 10, 0, 0>>), Text(<<2024, 1, 2, 10, 0, 0>>)>>

\* C16, the case: a Dataset with rows of a dated file and rows of a file whose name is
\* no date
C16_DatedAndUndatedFile ==
    /\ AggDone /\ aggResult.kind = "dataset"
    /\ \E j, k \in 1..Len(OutRows) :
          /\ OutRows[j].file_date.iso /\ OutRows[j].datetime_str.kind = "text"
          /\ ~OutRows[k].file_date.iso /\ OutRows[k].datetime_str.kind = "text"

(***************************************************************************)
(* The file catalog (src/core.py): get_date_range_from_files and           *)
(* get_files_for_date_range applied to bounded directories (SpecCatalog).  *)
(* A file name is the sequence of its characters, extension included; a    *)
(* date is the tuple <<year, month, day>>.                                 *)
(***************************************************************************)
MaxDirEntries == 3

DotTxt == <<".", "t", "x", "t">>

\* f.endswith(".txt")
endswith_txt(name) ==
    Len(name) >= 4 /\ SubSeq(name, Len(name) - 3, Len(name)) = DotTxt

\* f.replace(".txt", ""): every occurrence is removed, from left to right
RECURSIVE remove_txt(_)
remove_txt(name) ==
    IF name = <<>> THEN <<>>
    ELSE IF Len(name) >= 4 /\ SubSeq(name, 1, 4) = DotTxt
         THEN remove_txt(SubSeq(name, 5, Len(name)))
    ELSE <<name[1]>> \o remove_txt(Tail(name))

\* the order of dates
date_lt(a, b) ==
    \/ a[1] < b[1]
    \/ a[1] = b[1] /\ a[2] < b[2]
    \/ a[1] = b[1] /\ a[2] = b[2] /\ a[3] < b[3]

date_le(a, b) == a = b \/ date_lt(a, b)

\* a loop that stops before end_date
StopsBeforeEnd(current, end_date) == date_lt(current, end_date)

\* while current <= end_date
loop_continues(current, end_date) == date_le(current, end_date)

\* current + timedelta(days=1)
next_day(d) ==
    IF d[3] < DaysInMonth(d[1], d[2]) THEN <<d[1], d[2], d[3] + 1>>
    ELSE IF d[2] < 12 THEN <<d[1], d[2] + 1, 1>>
    ELSE <<d[1] + 1, 1, 1>>

\* two digits, zero padded
TwoDigits(n) == <<Digits[((n \div 10) % 10) + 1], Digits[(n % 10) + 1]>>

\* current.strftime("%m%d%y")
strftime_mdy(d) == TwoDigits(d[2]) \o TwoDigits(d[3]) \o TwoDigits(d[1] % 100)

NoRange == [null |-> TRUE, min |-> <<>>, max |-> <<>>]

\* get_date_range_from_files()
get_date_range_from_files(dir) ==
    LET dates == {strptime(remove_txt(f)).ymd :
                     f \in {g \in dir.names : endswith_txt(g) /\ strptime(remove_txt(g)).ok}}
    IN IF ~dir.exists THEN NoRange
       ELSE IF dates = {} THEN NoRange
       ELSE [null |-> FALSE,
             min |-> CHOOSE d \in dates : \A e \in dates : date_le(d, e),
             max |-> CHOOSE d \in dates : \A e \in dates : date_le(e, d)]

\* while current <= end_date: ... if os.path.exists(filepath): files.append(filepath)
RECURSIVE files_from(_, _, _, _)
files_from(dir, current, end_date, files) ==
    IF ~loop_continues(current, end_date) THEN files
    ELSE LET filename == strftime_mdy(current) \o DotTxt
         IN files_from(dir, next_day(current), end_date,
                       IF filename \in dir.names THEN Append(files, filename) ELSE files)

\* get_files_for_date_range(start_date, end_date)
get_files_for_date_range(dir, start_date, end_date) ==
    IF ~dir.exists THEN <<>> ELSE files_from(dir, start_date, end_date, <<>>)

CatNames ==
    {<<"1", "2", "3", "1", "2", "3", ".", "t", "x", "t">>,
     <<"0", "1", "0", "1", "2", "4", ".", "t", "x", "t">>,
     <<"0", "1", "0", "2", "2", "4", ".", "t", "x", "t">>,
     <<"0", "2", "2", "9", "2", "4", ".", "t", "x", "t">>,
     <<"0", "3", "0", "1", "2", "4", ".", "t", "x", "t">>,
     <<"0", "2", "3", "0", "2", "4", ".", "t", "x", "t">>,
     <<"n", "o", "t", "e", "s", ".", "t", "x", "t">>,
     <<"1", "1", "2", "4", ".", "t", "x", "t">>,
     <<"0", "1", "0", "1", "2", "4", ".", "c", "s", "v">>}

CatDates ==
    {<<2023, 12, 31>>, <<2024, 1, 1>>, <<2024, 1, 2>>, <<2024, 2, 28>>, <<2024, 2, 29>>,
     <<2024, 3, 1>>, <<2024, 3, 2>>}

\* DATA_DIR: absent, or a directory with some of the names
Directories ==
    {[exists |-> FALSE, names |-> {}]} \cup
    {[exists |-> TRUE, names |-> ns] :
        ns \in {x \in SUBSET CatNames : Cardinality(x) <= MaxDirEntries}}

CatIdle ==
    /\ catDir = [exists |-> FALSE, names |-> {}]
    /\ catArgs = <<>>
    /\ catRange = NoRange
    /\ catFiles = <<>>
    /\ catPhase = {"off"}

InitCatalog ==
    /\ catDir \in Directories
    /\ catArgs \in CatDates \X CatDates
    /\ catRange = NoRange
    /\ catFiles = <<>>
    /\ catPhase = {}

\* catRange = get_date_range_from_files()
GetDateRangeFromFiles ==
    /\ catPhase \subseteq {"files"}
    /\ catRange' = get_date_range_from_files(catDir)
    /\ catPhase' = catPhase \cup {"range"}
    /\ UNCHANGED <<catDir, catArgs, catFiles>>
    /\ UNCHANGED <<statsVars, filterVars, fileVars, seqVars, concVars, schedVars, loopVars,
                   cacheVars, aggVars, winVars, slackVars, repVars, recVars, chkVars>>

\* catFiles = get_files_for_date_range(start_date, end_date)
GetFilesForDateRange ==
    /\ catPhase \subseteq {"range"}
    /\ catFiles' = get_files_for_date_range(catDir, catArgs[1], catArgs[2])
    /\ catPhase' = catPhase \cup {"files"}
    /\ UNCHANGED <<catDir, catArgs, catRange>>
    /\ UNCHANGED <<statsVars, filterVars, fileVars, seqVars, concVars, schedVars, loopVars,
                   cacheVars, aggVars, winVars, slackVars, repVars, recVars, chkVars>>

(***************************************************************************)
(* Claims about the catalog, checked under SpecCatalog.                    *)
(***************************************************************************)
\* the days of the calendar from December 2023 to March 2024, which hold every input
Calendar ==
    {d \in {<<ym[1], ym[2], k>> : ym \in ({2023} \X {12}) \cup ({2024} \X (1..3)), k \in 1..31} :
        d[3] <= MonthLengths(d[1])[d[2]]}

Earlier(a, b) == a[1] * 10000 + a[2] * 100 + a[3] < b[1] * 10000 + b[2] * 100 + b[3]

\* MMDDYY.txt of a day
NameOf(d) ==
    <<Digits[(d[2] \div 10) + 1], Digits[(d[2] % 10) + 1],
      Digits[(d[3] \div 10) + 1], Digits[(d[3] % 10) + 1],
      Digits[((d[1] % 100) \div 10) + 1], Digits[(d[1] % 10) + 1],
      ".", "t", "x", "t">>

\* the days in [start_date, end_date] whose file exists
DaysWithFile ==
    {d \in Calendar :
        /\ catDir.exists
        /\ ~Earlier(d, catArgs[1]) /\ ~Earlier(catArgs[2], d)
        /\ NameOf(d) \in catDir.names}

\* C19: get_files_for_date_range(a, b) returns one entry for each day in [a, b] whose
\* MMDDYY.txt exists, in ascending date order and without duplicates; days without a
\* file are skipped; the result is empty when a > b or the data directory is absent.
C19_FilesOfRangeAscending ==
    "files" \in catPhase =>
        /\ Len(catFiles) = Cardinality(DaysWithFile)
        /\ \A k \in 1..Len(catFiles) : \E d \in DaysWithFile : catFiles[k] = NameOf(d)
        /\ \A j, k \in 1..Len(catFiles) :
              j < k => \E dj, dk \in DaysWithFile :
                          catFiles[j] = NameOf(dj) /\ catFiles[k] = NameOf(dk) /\ Earlier(dj, dk)
        /\ (~catDir.exists \/ Earlier(catArgs[2], catArgs[1])) => catFiles = <<>>

\* C19, the case: a range over the turn of the year, with files on two of its days, a
\* day without a file between them, and a file outside the range
C19_GapSkipped ==
    /\ "files" \in catPhase
    /\ Len(catFiles) = 2
    /\ catFiles[1] = <<"1", "2", "3", "1", "2", "3", ".", "t", "x", "t">>
    /\ catFiles[2] = <<"0", "1", "0", "2", "2", "4", ".", "t", "x", "t">>
    /\ <<"0", "3", "0", "1", "2", "4", ".", "t", "x", "t">> \in catDir.names

\* the dates of the names that are six digits MMDDYY followed by ".txt"
StrictDates ==
    {DateOfMMDDYY(SubSeq(f, 1, 6)) :
        f \in {g \in catDir.names :
                 Len(g) = 10 /\ SubSeq(g, 7, 10) = <<".", "t", "x", "t">>
                             /\ IsMMDDYY(SubSeq(g, 1, 6))}}

\* C20: get_date_range_from_files returns the least and the greatest of the dates of
\* the names that match MMDDYY.txt, every other name being ignored, and (null, null)
\* when the directory is absent or no name gives a date.
C20_RangeOfMatchingNames ==
    "range" \in catPhase =>
        IF ~catDir.exists \/ StrictDates = {} THEN catRange.null
        ELSE /\ ~catRange.null
             /\ catRange.min \in StrictDates /\ catRange.max \in StrictDates
             /\ \A d \in StrictDates : ~Earlier(d, catRange.min) /\ ~Earlier(catRange.max, d)

\* C20, the case: a directory with a name that gives no date beside names that do
C20_UnparseableNameIgnored ==
    /\ "range" \in catPhase
    /\ ~catRange.null
    /\ catRange.min # catRange.max
    /\ <<"n", "o", "t", "e", "s", ".", "t", "x", "t">> \in catDir.names

(***************************************************************************)
(* The files of the last 24 hours (src/core.py), with calendar dates and   *)
(* file names as in the catalog: get_files_for_last_24_hours, and          *)
(* get_file_modification_times applied to what it returned (SpecWindow).   *)
(***************************************************************************)
\* a subtraction that stays on the same day
SameDay(d) == d

\* today - timedelta(days=1)
prev_day(d) ==
    IF d[3] > 1 THEN <<d[1], d[2], d[3] - 1>>
    ELSE IF d[2] > 1 THEN <<d[1], d[2] - 1, DaysInMonth(d[1], d[2] - 1)>>
    ELSE <<d[1] - 1, 12, 31>>

\* datetime.now().date()
date(t) == SubSeq(t, 1, 3)

\* get_files_for_last_24_hours(), with DATA_DIR = dir and datetime.now() = t
files_for_last_24_hours(dir, t) ==
    LET today_ == date(t)
        yesterday == prev_day(today_)
    IN IF ~dir.exists THEN <<>>
       ELSE SelectSeq(<<strftime_mdy(yesterday) \o DotTxt, strftime_mdy(today_) \o DotTxt>>,
                      LAMBDA filename : filename \in dir.names)

\* os.path.getmtime(f): the modification time, or OSError
getmtime(f, fs, failing) ==
    IF f \in failing THEN [exc |-> "OSError", value |-> 0]
    ELSE [exc |-> "none", value |-> fs[f].mtime]

\* except OSError
mtime_catches(exc) == exc = "OSError"

NoMtimes == [raised |-> FALSE, mtimes |-> [f \in {} |-> 0]]

\* get_file_modification_times(files) as a call: the mapping it returns, or that an
\* exception leaves it
file_modification_times_call(paths, fs, failing) ==
    IF \E f \in Range(paths) :
          Outcome(getmtime(f, fs, failing).exc, mtime_catches(getmtime(f, fs, failing).exc))
              = "raised"
    THEN [raised |-> TRUE, mtimes |-> NoMtimes.mtimes]
    ELSE [raised |-> FALSE, mtimes |-> get_file_modification_times(paths, fs, failing)]

\* the values of datetime.now()
WinNows ==
    {d \o tod : d \in {<<2024, 1, 1>>, <<2024, 1, 2>>, <<2024, 1, 3>>, <<2024, 3, 1>>},
                tod \in {<<0, 0, 0>>, <<10, 0, 0>>, <<23, 59, 59>>}}

NoStat == [fs |-> [f \in {} |-> NoFile], failing |-> {}]

WinIdle ==
    /\ winDir = [exists |-> FALSE, names |-> {}]
    /\ winNow = <<2024, 1, 2, 10, 0, 0>>
    /\ winFiles = <<>>
    /\ winStat = NoStat
    /\ winMtimes = NoMtimes
    /\ winPhase = "off"

InitWindow ==
    /\ winDir \in Directories
    /\ winNow \in WinNows
    /\ winFiles = <<>>
    /\ winStat = NoStat
    /\ winMtimes = NoMtimes
    /\ winPhase = "input"

\* winFiles = get_files_for_last_24_hours()
GetFilesForLast24Hours ==
    /\ winPhase = "input"
    /\ winFiles' = files_for_last_24_hours(winDir, winNow)
    /\ winPhase' = "files"
    /\ UNCHANGED <<winDir, winNow, winStat, winMtimes>>
    /\ UNCHANGED <<statsVars, filterVars, fileVars, seqVars, concVars, schedVars, loopVars,
                   cacheVars, aggVars, catVars, slackVars, repVars, recVars, chkVars>>

\* winMtimes = get_file_modification_times(winFiles); each file has some modification
\* time, and the stat call of any of them may fail
GetFileModificationTimes ==
    /\ winPhase = "files"
    /\ \E fs \in [Range(winFiles) -> [exists : {TRUE}, mtime : 1..MaxMtime]],
          failing \in SUBSET Range(winFiles) :
          /\ winStat' = [fs |-> fs, failing |-> failing]
          /\ winMtimes' = file_modification_times_call(winFiles, fs, failing)
    /\ winPhase' = "mtimes"
    /\ UNCHANGED <<winDir, winNow, winFiles>>
    /\ UNCHANGED <<statsVars, filterVars, fileVars, seqVars, concVars, schedVars, loopVars,
                   cacheVars, aggVars, catVars, slackVars, repVars, recVars, chkVars>>

(***************************************************************************)
(* Claims about the files of the last 24 hours, checked under SpecWindow.  *)
(***************************************************************************)
TimesOfDay == {<<0, 0, 0>>, <<9, 59, 59>>, <<10, 0, 0>>, <<10, 0, 1>>, <<23, 59, 59>>}

\* the number of the day since 2023-01-01
DayNumber(d) == Seconds(d \o <<0, 0, 0>>) \div 86400

\* the instant of day d at time of day tod lies in [now - 24h, now]
WithinLast24Hours(d, tod) ==
    /\ Seconds(winNow) - 86400 <= Seconds(d \o tod)
    /\ Seconds(d \o tod) <= Seconds(winNow)

\* C21: get_files_for_last_24_hours returns at most two files, yesterday's before
\* today's, each only if it exists, and for every instant of the last 24 hours the
\* file of that instant's calendar date is in the result whenever it exists.
C21_CoversLast24Hours ==
    winPhase = "files" =>
        /\ Len(winFiles) <= 2
        /\ \A k \in 1..Len(winFiles) :
              /\ winDir.exists /\ winFiles[k] \in winDir.names
              /\ \E d \in Calendar :
                    /\ winFiles[k] = NameOf(d)
                    /\ DayNumber(SubSeq(winNow, 1, 3)) - DayNumber(d) \in {0, 1}
        /\ Len(winFiles) = 2 =>
              \E y, t \in Calendar :
                  /\ winFiles[1] = NameOf(y) /\ winFiles[2] = NameOf(t)
                  /\ DayNumber(y) + 1 = DayNumber(t)
                  /\ DayNumber(t) = DayNumber(SubSeq(winNow, 1, 3))
        /\ \A d \in Calendar, tod \in TimesOfDay :
              (WithinLast24Hours(d, tod) /\ winDir.exists /\ NameOf(d) \in winDir.names)
                  => \E k \in 1..Len(winFiles) : winFiles[k] = NameOf(d)

\* C21, the case: on New Year's Day the files of 31 December and of 1 January are
\* returned, in that order, and the file of 2 January is not
C21_YesterdayThenToday ==
    /\ winPhase = "files"
    /\ SubSeq(winNow, 1, 3) = <<2024, 1, 1>>
    /\ winFiles = << <<"1", "2", "3", "1", "2", "3", ".", "t", "x", "t">>,
                     <<"0", "1", "0", "1", "2", "4", ".", "t", "x", "t">> >>
    /\ <<"0", "1", "0", "2", "2", "4", ".", "t", "x", "t">> \in winDir.names

\* C22: get_file_modification_times returns a mapping with exactly one entry per input
\* file and never raises: a file whose stat call fails is mapped to 0, every other file
\* to its modification time.
C22_OneEntryPerFile ==
    winPhase = "mtimes" =>
        /\ ~winMtimes.raised
        /\ DOMAIN winMtimes.mtimes = {winFiles[k] : k \in 1..Len(winFiles)}
        /\ \A f \in DOMAIN winMtimes.mtimes :
              winMtimes.mtimes[f] = IF f \in winStat.failing THEN 0 ELSE winStat.fs[f].mtime

\* C22, the case: of two files the stat call of one fails and that of the other succeeds
C22_OneStatFailed ==
    /\ winPhase = "mtimes"
    /\ Len(winFiles) = 2
    /\ winFiles[1] \in winStat.failing
    /\ winFiles[2] \notin winStat.failing
    /\ winMtimes.mtimes[winFiles[1]] = 0
    /\ winMtimes.mtimes[winFiles[2]] = MaxMtime

(***************************************************************************)
(* The Slack functions (src/core.py): send_slack_message and               *)
(* send_daily_report (SpecSlack).  The token and the target are present or *)
(* empty; each call of the Slack client ends "ok", with a SlackApiError    *)
(* (the API answered with an error) or with another Exception (transport). *)
(***************************************************************************)
ApiResults == {"ok", "SlackApiError", "Exception"}

\* except SlackApiError ... except Exception
slack_catches(exc) == exc \in {"SlackApiError", "Exception"}

SlackReturn(success, reason, opens, posts) ==
    [outcome |-> "returned", success |-> success, reason |-> reason,
     opens |-> opens, posts |-> posts]

\* send_slack_message(bot_token, target, text, blocks, is_dm, logger); open_result and
\* post_result are what client.conversations_open and client.chat_postMessage do
send_slack_message(bot_token, target, is_dm, open_result, post_result) ==
    LET opens == IF is_dm THEN 1 ELSE 0
        open_exc == IF is_dm THEN open_result ELSE "ok"
        posts == IF open_exc = "ok" THEN 1 ELSE 0
        exc == IF open_exc # "ok" THEN open_exc ELSE post_result
    IN IF ~bot_token THEN SlackReturn(FALSE, "No Slack bot token configured", 0, 0)
       ELSE IF ~target THEN SlackReturn(FALSE, "No target specified", 0, 0)
       ELSE IF exc = "ok" THEN SlackReturn(TRUE, "Message sent successfully", opens, posts)
       ELSE IF ~slack_catches(exc)
            THEN [outcome |-> "raised", success |-> FALSE, reason |-> exc,
                  opens |-> opens, posts |-> posts]
       ELSE IF exc = "SlackApiError" THEN SlackReturn(FALSE, "Slack API error", opens, posts)
       ELSE SlackReturn(FALSE, "Error sending message", opens, posts)

\* send_daily_report(bot_token, target, stats, filename, is_dm, logger): the blocks and
\* the text are built from stats, then send_slack_message is called once
send_daily_report(bot_token, target, is_dm, open_result, post_result) ==
    send_slack_message(bot_token, target, is_dm, open_result, post_result)

SlackArgs == [fn : {"send_slack_message", "send_daily_report"},
              bot_token : BOOLEAN, target : BOOLEAN, is_dm : BOOLEAN]

NoApi == [open |-> "ok", post |-> "ok"]

NoReturn == [outcome |-> "none", success |-> FALSE, reason |-> "", opens |-> 0, posts |-> 0]

SlackIdle ==
    /\ slackArgs = [fn |-> "send_slack_message", bot_token |-> FALSE, target |-> FALSE,
                    is_dm |-> FALSE]
    /\ slackApi = NoApi
    /\ slackRet = NoReturn
    /\ slackPhase = "off"

InitSlack ==
    /\ slackArgs \in SlackArgs
    /\ slackApi = NoApi
    /\ slackRet = NoReturn
    /\ slackPhase = "input"

\* one call of send_slack_message or send_daily_report
SendMessage ==
    /\ slackPhase = "input"
    /\ \E open_result, post_result \in ApiResults :
          /\ slackApi' = [open |-> open_result, post |-> post_result]
          /\ slackRet' =
                IF slackArgs.fn = "send_daily_report"
                THEN send_daily_report(slackArgs.bot_token, slackArgs.target, slackArgs.is_dm,
                                       open_result, post_result)
                ELSE send_slack_message(slackArgs.bot_token, slackArgs.target,
                                        slackArgs.is_dm, open_result, post_result)
    /\ slackPhase' = "done"
    /\ UNCHANGED slackArgs
    /\ UNCHANGED <<statsVars, filterVars, fileVars, seqVars, concVars, schedVars, loopVars,
                   cacheVars, aggVars, catVars, winVars, repVars, recVars, chkVars>>

(***************************************************************************)
(* Claims about the Slack functions, checked under SpecSlack.              *)
(***************************************************************************)
\* the call met a delivery failure: no token, no target, or an API call it made failed
DeliveryFailed ==
    \/ ~slackArgs.bot_token
    \/ ~slackArgs.target
    \/ slackArgs.is_dm /\ slackApi.open # "ok"
    \/ slackApi.post # "ok"

\* C23: send_slack_message and send_daily_report always return a (success, reason) pair
\* and never raise on a delivery failure (missing token, missing target, API error,
\* transport error); a call makes at most one attempt to post: nothing is retried.
C23_PairReturnedNoRetry ==
    slackPhase = "done" =>
        /\ slackRet.outcome = "returned"
        /\ slackRet.reason # ""
        /\ slackRet.success = ~DeliveryFailed
        /\ slackRet.posts <= 1
        /\ slackRet.opens <= 1
        /\ (~slackArgs.bot_token \/ ~slackArgs.target) => slackRet.posts = 0

\* C23, the case: the one attempt to post fails with an API error and is not repeated
C23_PostFailedOnce ==
    /\ slackPhase = "done"
    /\ slackArgs.fn = "send_daily_report"
    /\ slackApi.post = "SlackApiError"
    /\ slackRet.posts = 1
    /\ ~slackRet.success
    /\ slackRet.reason = "Slack API error"

(***************************************************************************)
(* The daily report (src/scheduler.py): send_scheduled_report as the chain *)
(* load_multiple_files, filter_to_last_24_hours, calculate_daily_stats,    *)
(* send_daily_report, each as modelled above (SpecReport).  The value v of *)
(* a row is its cell in the monitored channel "full range", when the files *)
(* have that channel.                                                      *)
(***************************************************************************)
\* the aggregated dataset as filter_to_last_24_hours reads it: the column datetime_str
\* exists when a loaded file had a time column, and holds NaN where a file had none
filter_view(files, rows) ==
    [none |-> FALSE,
     has_datetime_str |-> \E f \in 1..Len(files) : files[f].loads /\ files[f].timeCol # "absent",
     rows |-> [i \in 1..Len(rows) |->
                 [id |-> i,
                  datetime_str |-> IF rows[i].datetime_str.kind = "text"
                                   THEN rows[i].datetime_str.text ELSE <<>>]]]

\* the filtered dataset as calculate_daily_stats reads it
stats_view(has_temp, rows) ==
    [col \in (IF has_temp THEN {"full range"} ELSE {}) |->
        [i \in 1..Len(rows) |-> Num(rows[i].v)]]

\* a report that sends the statistics of the unfiltered dataset
KeepAllRows(d, t) == d

\* df = filter_to_last_24_hours(df, logger), in send_scheduled_report
report_filter(d, t) == filter_to_last_24_hours(d, t)

ReportEnd(result, reason, loaded, rows, st, posts) ==
    [result |-> result, reason |-> reason, loaded |-> loaded, rows |-> rows,
     stats |-> st, posts |-> posts]

\* the rows of the dataset that the filter kept
kept_rows(data, kept) == [k \in 1..Len(kept.rows) |-> data.rows[kept.rows[k].id]]

\* send_scheduled_report() after `success, message = send_daily_report(...)`
report_sent(loaded, rows, st, sent) ==
    ReportEnd(IF sent.success THEN "true" ELSE "false",
              IF sent.success THEN "sent" ELSE "slack_failed", loaded, rows, st, sent.posts)

\* ... after `stats = calculate_daily_stats(df)`
report_stats(cfg, loaded, rows, st, open_result, post_result) ==
    IF DOMAIN st = {} THEN ReportEnd("false", "no_stats", loaded, rows, st, 0)
    ELSE report_sent(loaded, rows, st,
                     send_daily_report(cfg.token, cfg.target # "none", cfg.target = "user",
                                       open_result, post_result))

\* ... after `df = filter_to_last_24_hours(df, logger)`
report_filtered(cfg, has_temp, loaded, rows, open_result, post_result) ==
    report_stats(cfg, loaded, rows, calculate_daily_stats(stats_view(has_temp, rows)),
                 open_result, post_result)

\* ... after `df = load_multiple_files(files, logger)`
report_loaded(cfg, files, has_temp, t, data, open_result, post_result) ==
    IF data.kind = "TypeError" THEN ReportEnd("raised", "TypeError", <<>>, <<>>, NoStats, 0)
    ELSE IF data.kind = "None" THEN ReportEnd("false", "load_failed", <<>>, <<>>, NoStats, 0)
    ELSE report_filtered(cfg, has_temp, data.rows,
                         kept_rows(data, report_filter(filter_view(files, data.rows), t)),
                         open_result, post_result)

\* send_scheduled_report(), with the files get_files_for_last_24_hours returned
scheduled_report(cfg, files, has_temp, t, open_result, post_result) ==
    IF ~cfg.token THEN ReportEnd("false", "no_token", <<>>, <<>>, NoStats, 0)
    ELSE IF cfg.target = "none" THEN ReportEnd("false", "no_target", <<>>, <<>>, NoStats, 0)
    ELSE IF files = <<>> THEN ReportEnd("false", "no_files", <<>>, <<>>, NoStats, 0)
    ELSE report_loaded(cfg, files, has_temp, t, load_multiple_files(files),
                       open_result, post_result)

\* the files of the reports: three names, and content that loads or not, with or
\* without rows and a time column
ReportFiles ==
    {f \in AggFiles :
        /\ f.stem \in {<<"0", "1", "0", "1", "2", "4">>, <<"0", "1", "0", "2", "2", "4">>,
                       <<"n", "o", "t", "e", "s">>}
        /\ Len(f.rows) = 2 => f.rows[1].v # f.rows[2].v}

\* for d in [yesterday, today]
MaxReportFiles == 2

ReportInputs == UNION {[1..n -> ReportFiles] : n \in 0..MaxReportFiles}

ReportNows ==
    {[dt |-> <<2024, 1, 2, 10, 0, 0>>, micro |-> 0],
     [dt |-> <<2024, 3, 1, 10, 0, 1>>, micro |-> 0]}

NoReport == ReportEnd("none", "none", <<>>, <<>>, NoStats, 0)

RepIdle ==
    /\ repCfg = [token |-> FALSE, target |-> "none", has_temp |-> FALSE]
    /\ repFiles = <<>>
    /\ repNow = [dt |-> <<2024, 1, 2, 10, 0, 0>>, micro |-> 0]
    /\ repOut = NoReport
    /\ repPhase = "off"

InitReport ==
    /\ repCfg \in [token : BOOLEAN, target : {"channel", "user", "none"}, has_temp : BOOLEAN]
    /\ repFiles \in ReportInputs
    /\ repNow \in ReportNows
    /\ repOut = NoReport
    /\ repPhase = "input"

\* one run of send_scheduled_report()
SendScheduledReport ==
    /\ repPhase = "input"
    /\ \E open_result, post_result \in ApiResults :
          repOut' = scheduled_report(repCfg, repFiles, repCfg.has_temp, repNow,
                                     open_result, post_result)
    /\ repPhase' = "done"
    /\ UNCHANGED <<repCfg, repFiles, repNow>>
    /\ UNCHANGED <<statsVars, filterVars, fileVars, seqVars, concVars, schedVars, loopVars,
                   cacheVars, aggVars, catVars, winVars, slackVars, recVars, chkVars>>

(***************************************************************************)
(* Claims about the report, checked under SpecReport.                      *)
(***************************************************************************)
ReportDone == repPhase = "done"

\* the filter ran in this report
ReportFiltered == ReportDone /\ repOut.reason \in {"no_stats", "sent", "slack_failed"}

\* the row comes from a file whose name gave no date, and holds a time of day alone
TimeOfDayOnly(row) ==
    /\ ~row.file_date.iso
    /\ row.datetime_str.kind = "text"
    /\ Len(row.datetime_str.text) = 3

\* C26: the rows of a file whose name did not decode to a date (datetime = time of day
\* alone) fail to parse in filter_to_last_24_hours: all of them are dropped and no error
\* is raised, whatever now is.
C26_UndatedRowsDropped ==
    ReportFiltered =>
        /\ repOut.result # "raised"
        /\ \A k \in 1..Len(repOut.rows) : ~TimeOfDayOnly(repOut.rows[k])

\* C26, the case: rows of an undated file went into the filter beside a row that stayed
C26_UndatedRowsFiltered ==
    /\ ReportFiltered
    /\ \E i \in 1..Len(repOut.loaded) : TimeOfDayOnly(repOut.loaded[i])
    /\ Len(repOut.rows) = 1

\* what the claim requires of a report that posts: a token, a target, a file, a file
\* that loads, and a monitored channel for the statistics
ReportReady ==
    /\ repCfg.token
    /\ repCfg.target # "none"
    /\ repFiles # <<>>
    /\ \E f \in 1..Len(repFiles) : repFiles[f].loads
    /\ repCfg.has_temp

\* the values of "full range" in the rows of the loaded dataset that lie in the last 24
\* hours (all rows when no file has a time column)
ValuesInWindow ==
    LET timed == \E f \in 1..Len(repFiles) : repFiles[f].loads /\ repFiles[f].timeCol # "absent"
        inWindow(row) == \/ ~timed
                         \/ /\ row.datetime_str.kind = "text"
                            /\ InLast24Hours(row.datetime_str.text, repNow)
        kept == SelectSeq(repOut.loaded, inWindow)
    IN [k \in 1..Len(kept) |-> kept[k].v]

\* C30: send_scheduled_report posts a message only when a token and a target are
\* configured, a file of the last 24 hours exists, one of the files loads and the
\* statistics are not empty; in every other case it returns false and sends nothing; the
\* statistics it posts are those of the dataset after the 24-hour filter.
C30_PostsOnlyWhenReady ==
    ReportDone =>
        /\ repOut.posts <= 1
        /\ repOut.posts = 1 =>
              /\ ReportReady
              /\ DOMAIN repOut.stats = {"full range"}
              /\ LET vs == ValuesInWindow
                     st == repOut.stats["full range"]
                 IN IF vs = <<>> THEN st.current = None /\ st.min = NaN /\ st.max = NaN
                    ELSE /\ st.current = Num(vs[Len(vs)])
                         /\ \E k \in 1..Len(vs) : st.min = Num(vs[k])
                         /\ \A k \in 1..Len(vs) : st.min.num <= vs[k] /\ vs[k] <= st.max.num
        /\ repOut.posts = 0 => repOut.result = "false"

\* C30, the case: with everything configured and a file that loads, the report raises
\* instead of returning false
C30_ReportRaisedNothingSent ==
    /\ ReportDone
    /\ repCfg.token /\ repCfg.target # "none"
    /\ \E f \in 1..Len(repFiles) : repFiles[f].loads
    /\ repOut.result = "raised"
    /\ repOut.posts = 0

\* C30, a report that posts the statistics of the one row that is left after the filter
C30_FilteredReportPosted ==
    /\ ReportDone
    /\ repOut.posts = 1
    /\ Len(repOut.loaded) > 1
    /\ Len(repOut.rows) = 1

(***************************************************************************)
(* Aggregation over the loader cache (src/app.py): load_multiple_data_files *)
(* takes each Record from load_single_file_cached, which returns the       *)
(* cached object itself (allow_output_mutation=True), and adds file_date   *)
(* and datetime_str (SpecRecords).  A frame is followed by its columns     *)
(* file_date and datetime_str only; a path is the stem of the file name.   *)
(***************************************************************************)
MaxAggCalls == 2

\* no file_date column
Unset == [iso |-> FALSE, ymd |-> <<>>, raw |-> <<>>]

\* load_data(filepath): None, or a Record, which has neither file_date nor datetime_str
load_record(path, kind) ==
    [none |-> kind = "unloadable", path |-> path,
     timeCol |-> IF kind = "unloadable" THEN "absent" ELSE kind,
     file_date |-> Unset, datetime_str |-> FALSE]

\* load_single_file_cached(filepath): the store after the call; the call returns the
\* object stored under the path
cache_after_load(cache, disk, path) ==
    [q \in DOMAIN cache \cup {path} |->
        IF q \in DOMAIN cache THEN cache[q] ELSE load_record(q, disk[q])]

\* a missing copy: df still names the cached object
NoCopy(object) == object

\* df = df.copy(): df names an object of its own
copy(object) == "private"

\* df['file_date'] = ...; df['datetime_str'] = ...: the frame after the assignments
\* that are reached
with_file_date(frame) ==
    [frame EXCEPT
        !.file_date = IF strptime(frame.path).ok THEN IsoDate(strptime(frame.path).ymd)
                      ELSE RawStem(frame.path),
        !.datetime_str = frame.timeCol = "text"
                            \/ (frame.timeCol = "nontext" /\ ~strptime(frame.path).ok)]

\* file_date + ' ' + df['time_str'] on a column that is not text
frame_raises(frame) == strptime(frame.path).ok /\ frame.timeCol = "nontext"

\* one pass of `for i, filepath in enumerate(filepaths)` on the object df the cache
\* returned for the path
loop_pass(w, cache, path) ==
    IF cache[path].none THEN [w EXCEPT !.cache = cache]
    ELSE [cache |-> IF copy("cached") = "cached"
                    THEN [cache EXCEPT ![path] = with_file_date(cache[path])]
                    ELSE cache,
          all_dfs |-> IF frame_raises(cache[path]) THEN w.all_dfs
                      ELSE Append(w.all_dfs, with_file_date(cache[path])),
          exc |-> IF frame_raises(cache[path]) THEN "TypeError" ELSE "none"]

\* the loop over filepaths from position i on; an exception ends it
RECURSIVE loop_from(_, _, _, _)
loop_from(w, disk, files, i) ==
    IF i > Len(files) \/ w.exc # "none" THEN w
    ELSE loop_from(loop_pass(w, cache_after_load(w.cache, disk, files[i]), files[i]),
                   disk, files, i + 1)

\* what the call returns after the loop
dataset_of(w) ==
    IF w.exc # "none" THEN [kind |-> w.exc, frames |-> <<>>]
    ELSE IF w.all_dfs = <<>> THEN [kind |-> "None", frames |-> <<>>]
    ELSE [kind |-> "dataset", frames |-> w.all_dfs]

\* load_multiple_data_files(filepaths): the store after the call, and the result
load_multiple_data_files(cache, disk, files) ==
    IF files = <<>> THEN [cache |-> cache, result |-> [kind |-> "None", frames |-> <<>>]]
    ELSE [cache |-> loop_from([cache |-> cache, all_dfs |-> <<>>, exc |-> "none"],
                              disk, files, 1).cache,
          result |-> dataset_of(loop_from([cache |-> cache, all_dfs |-> <<>>, exc |-> "none"],
                                          disk, files, 1))]

RecPaths == {<<"0", "1", "0", "1", "2", "4">>, <<"n", "o", "t", "e", "s">>}

RecLists == UNION {[1..n -> RecPaths] : n \in 0..2}

NoRecords == [q \in {} |-> load_record(<<>>, "unloadable")]

RecIdle ==
    /\ recDisk = [q \in {} |-> "unloadable"]
    /\ recCache = NoRecords
    /\ recCalls = <<>>

InitRecords ==
    /\ recDisk \in [RecPaths -> {"text", "absent", "nontext", "unloadable"}]
    /\ recCache = NoRecords
    /\ recCalls = <<>>

\* the script calls load_multiple_data_files(files)
AggregateCached ==
    /\ Len(recCalls) < MaxAggCalls
    /\ \E files \in RecLists :
          /\ recCache' = load_multiple_data_files(recCache, recDisk, files).cache
          /\ recCalls' = Append(recCalls,
                                [files |-> files,
                                 result |-> load_multiple_data_files(recCache, recDisk,
                                                                     files).result])
    /\ UNCHANGED recDisk
    /\ UNCHANGED <<statsVars, filterVars, fileVars, seqVars, concVars, schedVars, loopVars,
                   cacheVars, aggVars, catVars, winVars, slackVars, repVars, chkVars>>

\* "Refresh Data", or the ttl: the store is emptied
ForgetRecords ==
    /\ recCache # NoRecords
    /\ recCache' = NoRecords
    /\ UNCHANGED <<recDisk, recCalls>>
    /\ UNCHANGED <<statsVars, filterVars, fileVars, seqVars, concVars, schedVars, loopVars,
                   cacheVars, aggVars, catVars, winVars, slackVars, repVars, chkVars>>

(***************************************************************************)
(* Claims about the cached Records, checked under SpecRecords.             *)
(***************************************************************************)
\* the frames an aggregation of the list gives when every Record is as load_data made it
FreshFrames(files) ==
    LET loaded == SelectSeq(files, LAMBDA q : recDisk[q] # "unloadable")
    IN [k \in 1..Len(loaded) |->
          [none |-> FALSE, path |-> loaded[k], timeCol |-> recDisk[loaded[k]],
           file_date |-> IF IsMMDDYY(loaded[k]) THEN IsoDate(DateOfMMDDYY(loaded[k]))
                         ELSE RawStem(loaded[k]),
           datetime_str |-> recDisk[loaded[k]] # "absent"]]

\* C25: a Record held in the loader cache is never modified by aggregation: after any
\* number of load_multiple_data_files calls the cached Record of a path has no
\* file_date and no datetime field, and the Datasets of two aggregations of the same
\* cached Record under different file lists are each what their own list gives.
C25_CachedRecordUntouched ==
    /\ \A q \in DOMAIN recCache :
          ~recCache[q].none => recCache[q].file_date = Unset /\ ~recCache[q].datetime_str
    /\ \A k \in 1..Len(recCalls) :
          recCalls[k].result.kind = "dataset" =>
              recCalls[k].result.frames = FreshFrames(recCalls[k].files)

\* C25, the case: two aggregations under different file lists took the same cached
\* Record, which is still in the cache
C25_RecordSharedByTwoCalls ==
    /\ Len(recCalls) = 2
    /\ recCalls[1].files # recCalls[2].files
    /\ recCalls[1].result.kind = "dataset" /\ recCalls[2].result.kind = "dataset"
    /\ \E q \in DOMAIN recCache :
          /\ ~recCache[q].none
          /\ \E i \in 1..Len(recCalls[1].files) : recCalls[1].files[i] = q
          /\ \E i \in 1..Len(recCalls[2].files) : recCalls[2].files[i] = q

(***************************************************************************)
(* check_file_updates over time (src/scheduler.py), from main()'s first    *)
(* snapshot on, while data files are written and removed and days pass     *)
(* (SpecCheck).  Beside the scheduler's variables three history variables  *)
(* are kept, which the program does not have.                              *)
(***************************************************************************)
Window == {today - 1, today}

\* the file of day d is there and differs from what file_mtimes holds: it has no entry,
\* or its modification time is greater than the recorded one
Changed(fs, d, recorded) ==
    /\ fs[d].exists
    /\ d \notin DOMAIN recorded \/ fs[d].mtime > recorded[d]

\* an update that keeps the entries of files the snapshot does not have
KeepOldEntries(current, previous) ==
    [d \in DOMAIN current \cup DOMAIN previous |->
        IF d \in DOMAIN current THEN current[d] ELSE previous[d]]

\* file_mtimes = current_mtimes
new_file_mtimes(current, previous) == current

ChkIdle ==
    /\ sinceStart = "off"
    /\ unsignalled = {}
    /\ returned = {}
    /\ dropped = {}

\* main() up to the loop, as in InitSched, with token and target left unset, started
\* on the day before the last one
InitCheck ==
    /\ schedPc = "running"
    /\ today = MaxDay - 1
    /\ dataFiles \in [{today - 1, today} ->
                        {NoFile} \cup [exists : {TRUE}, mtime : 1..MaxMtime]]
    /\ \E failing \in SUBSET Range(get_files_for_last_24_hours(dataFiles, today)) :
          file_mtimes = get_file_modification_times(
                            get_files_for_last_24_hours(dataFiles, today), dataFiles, failing)
    /\ config = [token |-> FALSE, target |-> "none"]
    /\ lastJob = NoJob
    /\ sigFile = Absent
    /\ clock = 8
    /\ sinceStart = "unchanged"
    /\ unsignalled = {}
    /\ returned = {}
    /\ dropped = {}

\* check_file_updates() with the stat calls of `failing` failing and `fault` in
\* write_refresh_signal; lastJob.reason is what the check logs
Check(failing, fault) ==
    LET current == get_file_modification_times(
                       get_files_for_last_24_hours(dataFiles, today), dataFiles, failing)
    IN /\ file_mtimes' = new_file_mtimes(current, file_mtimes)
       /\ sigFile' = IF files_changed(current, file_mtimes)
                     THEN write_refresh_signal(sigFile, clock, fault).file
                     ELSE sigFile
       /\ lastJob' = [job |-> "check",
                      result |-> IF files_changed(current, file_mtimes) THEN "true" ELSE "false",
                      reason |-> IF \E d \in DOMAIN current : d \notin DOMAIN file_mtimes
                                 THEN "New file detected"
                                 ELSE IF files_changed(current, file_mtimes)
                                      THEN "File updated" ELSE "none"]
       /\ sinceStart' = "checked"
       /\ returned' = {}
       /\ unsignalled' = IF files_changed(current, file_mtimes) /\ fault = "none"
                         THEN {} ELSE unsignalled
       /\ dropped' = {d \in Window :
                          IF d \in DOMAIN file_mtimes
                          THEN d \notin DOMAIN current /\ file_mtimes[d] > 0
                          ELSE d \in dropped}

\* the faults write_refresh_signal can meet in a check: none when it is not called
SignalFaults(failing) ==
    IF files_changed(get_file_modification_times(
                         get_files_for_last_24_hours(dataFiles, today), dataFiles, failing),
                     file_mtimes)
    THEN {"none", "open", "write"} ELSE {"none"}

\* run_pending() runs job_check_files: check_file_updates()
CheckFileUpdates ==
    /\ \E failing \in SUBSET Range(get_files_for_last_24_hours(dataFiles, today)) :
          \E fault \in SignalFaults(failing) : Check(failing, fault)
    /\ UNCHANGED <<clock, today, dataFiles, config, schedPc>>
    /\ UNCHANGED <<statsVars, filterVars, seqVars, concVars, loopVars, cacheVars, aggVars,
                   catVars, winVars, slackVars, repVars, recVars>>

\* a check in which no system call fails
CheckWithoutFault ==
    /\ Check({}, "none")
    /\ UNCHANGED <<clock, today, dataFiles, config, schedPc>>
    /\ UNCHANGED <<statsVars, filterVars, seqVars, concVars, loopVars, cacheVars, aggVars,
                   catVars, winVars, slackVars, repVars, recVars>>

\* the history after the data files became fs
history_after(fs, d) ==
    /\ sinceStart' = IF sinceStart = "unchanged" THEN "changed" ELSE sinceStart
    /\ unsignalled' = IF Changed(fs, d, file_mtimes) THEN unsignalled \cup {d}
                      ELSE unsignalled \ {d}
    /\ returned' = IF fs[d].exists /\ ~dataFiles[d].exists THEN returned \cup {d}
                   ELSE IF fs[d].exists THEN returned ELSE returned \ {d}
    /\ UNCHANGED dropped

\* the acquisition writes today's or yesterday's file: it appears, or its mtime grows
FileWritten ==
    /\ \E d \in Window :
          \/ /\ ~dataFiles[d].exists
             /\ \E m \in 1..MaxMtime :
                   /\ dataFiles' = [dataFiles EXCEPT ![d] = [exists |-> TRUE, mtime |-> m]]
                   /\ history_after([dataFiles EXCEPT ![d] = [exists |-> TRUE, mtime |-> m]], d)
          \/ /\ dataFiles[d].exists
             /\ dataFiles[d].mtime < MaxMtime
             /\ dataFiles' = [dataFiles EXCEPT ![d].mtime = @ + 1]
             /\ history_after([dataFiles EXCEPT ![d].mtime = @ + 1], d)
    /\ UNCHANGED <<sigFile, clock, today, file_mtimes, config, lastJob, schedPc>>
    /\ UNCHANGED <<statsVars, filterVars, seqVars, concVars, loopVars, cacheVars, aggVars,
                   catVars, winVars, slackVars, repVars, recVars>>

\* a data file is removed
FileRemoved ==
    /\ \E d \in Window :
          /\ dataFiles[d].exists
          /\ dataFiles' = [dataFiles EXCEPT ![d] = NoFile]
          /\ history_after([dataFiles EXCEPT ![d] = NoFile], d)
    /\ UNCHANGED <<sigFile, clock, today, file_mtimes, config, lastJob, schedPc>>
    /\ UNCHANGED <<statsVars, filterVars, seqVars, concVars, loopVars, cacheVars, aggVars,
                   catVars, winVars, slackVars, repVars, recVars>>

\* midnight: today becomes yesterday, and yesterday's file leaves the window
Midnight ==
    /\ today < MaxDay
    /\ today' = today + 1
    /\ dataFiles' = [d \in {today, today + 1} |-> IF d = today THEN dataFiles[today] ELSE NoFile]
    /\ unsignalled' = unsignalled \cap {today}
    /\ returned' = returned \cap {today}
    /\ dropped' = dropped \cap {today}
    /\ UNCHANGED <<sigFile, clock, file_mtimes, config, lastJob, schedPc, sinceStart>>
    /\ UNCHANGED <<statsVars, filterVars, seqVars, concVars, loopVars, cacheVars, aggVars,
                   catVars, winVars, slackVars, repVars, recVars>>

(***************************************************************************)
(* What a check signals.                                                   *)
(***************************************************************************)
PresentInWindow == {d \in Window : dataFiles[d].exists}

\* C27: a check returns true, and only then writes the signal, exactly when a
\* present file of yesterday or today has no entry in file_mtimes or has a
\* modification time greater than the recorded one; without such a file there is
\* no signal, and the first check after a start without changes signals nothing.
C27_SignalIffNewOrNewer ==
    [][CheckFileUpdates =>
          /\ lastJob'.result = "true" <=> \E d \in Window : Changed(dataFiles, d, file_mtimes)
          /\ lastJob'.result = "false" => sigFile' = sigFile
          /\ sinceStart = "unchanged" => lastJob'.result = "false"]_vars

\* C27, with the modification times as get_file_modification_times reports them
\* (0 for a failed stat call): a check returns true, and only then writes the
\* signal, exactly when a file of its snapshot has no entry in file_mtimes or a
\* reported time greater than the recorded one; a file that is gone, or whose
\* time is equal or lower, causes no signal; and the first check after a start
\* without changes signals nothing unless a stat call failed at the start.
C27_SignalIffSnapshotNewOrNewer ==
    [][CheckFileUpdates =>
          /\ lastJob'.result = "true" <=>
                \E d \in DOMAIN file_mtimes' :
                    d \notin DOMAIN file_mtimes \/ file_mtimes'[d] > file_mtimes[d]
          /\ \A d \in DOMAIN file_mtimes' : file_mtimes'[d] \in {0, dataFiles[d].mtime}
          /\ lastJob'.result = "false" => sigFile' = sigFile
          /\ (\A d \in Window : ~Changed(dataFiles, d, file_mtimes)) => lastJob'.result = "false"
          /\ (sinceStart = "unchanged" /\ \A d \in DOMAIN file_mtimes : file_mtimes[d] # 0)
                => lastJob'.result = "false"]_vars

\* a check found a file updated and wrote the signal
C27_UpdatedFileSignalled ==
    /\ lastJob.job = "check"
    /\ lastJob.result = "true"
    /\ lastJob.reason = "File updated"
    /\ sigFile.exists /\ sigFile.text # <<>>
    /\ unsignalled = {}

\* C28: under fair execution of the check, every change of a file of the window
\* (it appears, or its modification time passes the recorded one) is followed by a
\* check that writes the signal.
C28_ChangeEventuallySignalled ==
    \A d \in 1..MaxDay : (d \in unsignalled) ~> (d \notin unsignalled)

\* a check saw the change and recorded it, but its signal was not written
C28_ChangeRecordedWithoutSignal ==
    /\ unsignalled # {}
    /\ lastJob.result = "true"
    /\ ~sigFile.exists \/ sigFile.text = <<>>
    /\ \A d \in Window : ~Changed(dataFiles, d, file_mtimes)

\* every check leaves the snapshot in file_mtimes: an entry for each present file
\* of yesterday and today, no other entry, each the file's time or 0
SnapshotKept ==
    /\ DOMAIN file_mtimes' = PresentInWindow
    /\ Cardinality(DOMAIN file_mtimes') <= 2
    /\ \A d \in DOMAIN file_mtimes' : file_mtimes'[d] \in {0, dataFiles[d].mtime}

\* C29: after every check file_mtimes is that check's snapshot, and a file that
\* disappeared and reappeared since is signalled as a new file.
C29_SnapshotAndReturnedSignalled ==
    [][CheckFileUpdates =>
          /\ SnapshotKept
          /\ returned # {} => lastJob'.result = "true"]_vars

\* C29, for a file whose absence a check has seen: after every check file_mtimes
\* is that check's snapshot, and a file that was absent at one check and is
\* present at a later one is signalled as a new file, whatever its time.
C29_SnapshotAndAbsentAtCheckSignalled ==
    [][CheckFileUpdates =>
          /\ SnapshotKept
          /\ \A d \in PresentInWindow :
                d \notin DOMAIN file_mtimes =>
                    /\ lastJob'.result = "true"
                    /\ lastJob'.reason = "New file detected"
                    /\ d \in DOMAIN file_mtimes']_vars

\* a file whose entry one check dropped is back with the lowest time, which is no
\* greater than the dropped one, and the check signalled a new file
C29_ReappearedNoNewerSignalled ==
    /\ lastJob.result = "true"
    /\ lastJob.reason = "New file detected"
    /\ \E d \in dropped :
          /\ d \in DOMAIN file_mtimes
          /\ file_mtimes[d] = 1

(***************************************************************************)
(* The specifications.  Each leaves the variables of the other parts at    *)
(* rest.                                                                   *)
(***************************************************************************)
InitStatsSpec == InitStats /\ FilterIdle /\ FileIdle /\ SeqIdle /\ ConcIdle /\ SchedIdle /\ LoopIdle /\ CacheIdle /\ AggIdle /\ CatIdle /\ WinIdle /\ SlackIdle /\ RepIdle /\ RecIdle /\ ChkIdle

NextStats == CalculateDailyStats

SpecStats == InitStatsSpec /\ [][NextStats]_vars

InitFilterSpec == InitFilter /\ StatsIdle /\ FileIdle /\ SeqIdle /\ ConcIdle /\ SchedIdle /\ LoopIdle /\ CacheIdle /\ AggIdle /\ CatIdle /\ WinIdle /\ SlackIdle /\ RepIdle /\ RecIdle /\ ChkIdle

NextFilter == FilterToLast24Hours

SpecFilter == InitFilterSpec /\ [][NextFilter]_vars

InitSeqSpec == InitSeq /\ StatsIdle /\ FilterIdle /\ ConcIdle /\ SchedIdle /\ LoopIdle /\ CacheIdle /\ AggIdle /\ CatIdle /\ WinIdle /\ SlackIdle /\ RepIdle /\ RecIdle /\ ChkIdle

NextSeq ==
    \/ WriteCall
    \/ ReadCall
    \/ ClearCall
    \/ ForeignWrite

SpecSeq == InitSeqSpec /\ [][NextSeq]_vars

InitSignalSpec == InitSignal /\ StatsIdle /\ FilterIdle /\ SeqIdle /\ SchedIdle /\ LoopIdle /\ CacheIdle /\ AggIdle /\ CatIdle /\ WinIdle /\ SlackIdle /\ RepIdle /\ RecIdle /\ ChkIdle

NextSignal ==
    \/ W_Open
    \/ W_Write
    \/ R_Exists
    \/ R_Open
    \/ R_Read
    \/ C_Exists
    \/ C_Remove

SpecSignal == InitSignalSpec /\ [][NextSignal]_vars

InitSchedSpec == InitSched /\ FileIdle /\ StatsIdle /\ FilterIdle /\ SeqIdle /\ ConcIdle /\ LoopIdle /\ CacheIdle /\ AggIdle /\ CatIdle /\ WinIdle /\ SlackIdle /\ RepIdle /\ RecIdle /\ ChkIdle

NextSched ==
    \/ RunCheckJob
    \/ RunReportJob
    \/ Interrupt
    \/ TouchFile
    \/ RemoveFile
    \/ NewDay

SpecSched == InitSchedSpec /\ [][NextSched]_vars

InitLoopSpec == InitLoop /\ FileIdle /\ StatsIdle /\ FilterIdle /\ SeqIdle /\ ConcIdle /\ SchedIdle /\ CacheIdle /\ AggIdle /\ CatIdle /\ WinIdle /\ SlackIdle /\ RepIdle /\ RecIdle /\ ChkIdle

NextLoop ==
    \/ BecomeDue
    \/ RunPending
    \/ RunJob
    \/ CheckFilesStep
    \/ SendReportStep
    \/ ReportRaises
    \/ RunPendingReturns
    \/ Sleep

SpecLoop == InitLoopSpec /\ [][NextLoop]_vars

InitCacheSpec == InitCache /\ FileIdle /\ StatsIdle /\ FilterIdle /\ SeqIdle /\ ConcIdle /\ SchedIdle /\ LoopIdle /\ AggIdle /\ CatIdle /\ WinIdle /\ SlackIdle /\ RepIdle /\ RecIdle /\ ChkIdle

NextCache ==
    \/ RunScript
    \/ ModifyFile
    \/ TimePasses

SpecCache == InitCacheSpec /\ [][NextCache]_vars

InitAggSpec == InitAgg /\ FileIdle /\ StatsIdle /\ FilterIdle /\ SeqIdle /\ ConcIdle /\ SchedIdle /\ LoopIdle /\ CacheIdle /\ CatIdle /\ WinIdle /\ SlackIdle /\ RepIdle /\ RecIdle /\ ChkIdle

NextAgg == LoadMultipleFiles

SpecAgg == InitAggSpec /\ [][NextAgg]_vars

InitCatalogSpec == InitCatalog /\ FileIdle /\ StatsIdle /\ FilterIdle /\ SeqIdle /\ ConcIdle /\ SchedIdle /\ LoopIdle /\ CacheIdle /\ AggIdle /\ WinIdle /\ SlackIdle /\ RepIdle /\ RecIdle /\ ChkIdle

NextCatalog ==
    \/ GetDateRangeFromFiles
    \/ GetFilesForDateRange

SpecCatalog == InitCatalogSpec /\ [][NextCatalog]_vars

InitWindowSpec == InitWindow /\ FileIdle /\ StatsIdle /\ FilterIdle /\ SeqIdle /\ ConcIdle /\ SchedIdle /\ LoopIdle /\ CacheIdle /\ AggIdle /\ CatIdle /\ SlackIdle /\ RepIdle /\ RecIdle /\ ChkIdle

NextWindow ==
    \/ GetFilesForLast24Hours
    \/ GetFileModificationTimes

SpecWindow == InitWindowSpec /\ [][NextWindow]_vars

InitSlackSpec == InitSlack /\ FileIdle /\ StatsIdle /\ FilterIdle /\ SeqIdle /\ ConcIdle /\ SchedIdle /\ LoopIdle /\ CacheIdle /\ AggIdle /\ CatIdle /\ WinIdle /\ RepIdle /\ RecIdle /\ ChkIdle

NextSlack == SendMessage

SpecSlack == InitSlackSpec /\ [][NextSlack]_vars

InitReportSpec == InitReport /\ FileIdle /\ StatsIdle /\ FilterIdle /\ SeqIdle /\ ConcIdle /\ SchedIdle /\ LoopIdle /\ CacheIdle /\ AggIdle /\ CatIdle /\ WinIdle /\ SlackIdle /\ RecIdle /\ ChkIdle

NextReport == SendScheduledReport

SpecReport == InitReportSpec /\ [][NextReport]_vars

InitRecordsSpec == InitRecords /\ FileIdle /\ StatsIdle /\ FilterIdle /\ SeqIdle /\ ConcIdle /\ SchedIdle /\ LoopIdle /\ CacheIdle /\ AggIdle /\ CatIdle /\ WinIdle /\ SlackIdle /\ RepIdle /\ ChkIdle

NextRecords ==
    \/ AggregateCached
    \/ ForgetRecords

SpecRecords == InitRecordsSpec /\ [][NextRecords]_vars

InitCheckSpec == InitCheck /\ StatsIdle /\ FilterIdle /\ SeqIdle /\ ConcIdle /\ LoopIdle /\ CacheIdle /\ AggIdle /\ CatIdle /\ WinIdle /\ SlackIdle /\ RepIdle /\ RecIdle

NextCheck ==
    \/ CheckFileUpdates
    \/ FileWritten
    \/ FileRemoved
    \/ Midnight

SpecCheck == InitCheckSpec /\ [][NextCheck]_vars

\* the check job is due every minute, and system calls do not fail for ever
SpecCheckFair == SpecCheck /\ WF_vars(CheckFileUpdates) /\ WF_vars(CheckWithoutFault)

=============================================================================
